---- MODULE Spec2Model ----
(***************************************************************************)
(* Model of the wasm-peers signaling server (one-to-one, one-to-many and   *)
(* many-to-many session registries) and of the peer library's signaling    *)
(* handlers.  Each topology module of the server owns its own connection   *)
(* registry, session registry and NEXT_USER_ID (signaling-server/src/      *)
(* router.rs:9-16), so every specification below exercises one topology.   *)
(***************************************************************************)
EXTENDS Integers, Sequences, FiniteSets, TLC

\* ---- bounds of the model -------------------------------------------------
MaxUsers == 3
MaxOutbox == 1
MaxClients == 2
MaxRelayed == 2
MaxSends == 2
MaxCandidates == 1
MaxParked == 3
MaxSignals == 3
MaxNegotiators == 2

\* ---- inputs ----------------------------------------------------------------
SessionIds == {"s1", "s2"}
Payloads == {"p1", "p2"}
UserIds == 1..MaxUsers

\* Option::None of an Option<UserId>; user ids start at 1.
None == 0
\* Option::None of an Option<SessionId>.
NoSession == "none"

VARIABLES
    nextUserId,       \* NEXT_USER_ID
    task,             \* position of each connection's user_connected task
    connections,      \* keys of the Connections map
    sessions,         \* the Sessions map: session id -> Session
    outbox,           \* per user: the messages queued on its sink (the unbounded channel)
    sessionToDelete,  \* per user: the local session_to_delete of user_disconnected
    inbox,            \* per user: the frames its peer has put on the websocket
    peers,            \* per user: the NetworkManager of the peer behind the connection
    readys,           \* readys[u][m]: SessionReady messages naming m that peer u handled
    offers,           \* offers[u][m]: SdpOffer frames naming m that peer u put on its websocket
    offered,          \* offered[u][m]: SdpOffer messages from m that peer u handled
    o2oPeers,         \* per user: the one-to-one NetworkManager of the peer behind the connection
    dataChannels,     \* one one-to-many NetworkManager: its connections map, by remote user
    dataChannel,      \* one one-to-one NetworkManager: its data_channel field
    attempts,         \* attempts[r]: calls of send_with_u8_array on the data channel to r
    o2oAttempts,      \* calls of send_with_u8_array on the one-to-one data channel
    result,           \* what the last send_message / send_message_to_all returned
    phase,            \* per connection: where its user_connected task is, seen by its locks
    running,          \* per connection: the lock operations its handler has yet to do
    held,             \* per RwLock: the guards alive, as <<user, mode>>
    waiting,          \* per RwLock: the queue of its pending acquisitions, as <<user, mode>>
    cell,             \* the RefCell of NetworkManagerInner: its live Refs and RefMut
    frames,           \* the call stack of the peer: what each frame has yet to do
    parked,           \* the spawned handlers suspended at an await: what each has yet to do
    conflict          \* a borrow met a conflicting one (BorrowError / BorrowMutError)

serverVars == <<nextUserId, task, connections, sessions, outbox, sessionToDelete>>
peerVars == <<inbox, peers, readys, offers, offered, o2oPeers>>
sendVars == <<dataChannels, dataChannel, attempts, o2oAttempts, result>>
lockVars == <<phase, running, held, waiting>>
borrowVars == <<cell, frames, parked, conflict>>
vars == <<nextUserId, task, connections, sessions, outbox, sessionToDelete,
          inbox, peers, readys, offers, offered, o2oPeers,
          dataChannels, dataChannel, attempts, o2oAttempts, result,
          phase, running, held, waiting,
          cell, frames, parked, conflict>>

\* ---- wire frames -----------------------------------------------------------
\* A websocket frame: Text or Binary, holding the JSON or the MessagePack
\* encoding of a message, or bytes that are no encoding of any message.
TextJson(m) == [kind |-> "Text", codec |-> "json", msg |-> m]
BinaryRmp(m) == [kind |-> "Binary", codec |-> "rmp", msg |-> m]
Garbage == [kind |-> "Text", codec |-> "garbage", msg |-> "?"]

\* warp's Message::to_str: Ok only for a Text frame.
WarpToStr(frame) == frame.kind = "Text"
\* axum's Message::to_text: a Text frame, or a Binary frame holding valid UTF-8.
\* A MessagePack enum starts with a map/array marker byte (0x81, 0x92), which is
\* no UTF-8 start byte.
AxumToText(frame) == frame.kind = "Text" \/ frame.codec = "json"
\* serde_json::from_str::<SignalMessage>
JsonFromStr(frame) == frame.codec = "json"

\* ---- helpers ---------------------------------------------------------------
\* A sink that hands out the newest message first.
Send_Front(ob, u, m) == [ob EXCEPT ![u] = <<m>> \o @]

Send(ob, u, m) == [ob EXCEPT ![u] = Append(@, m)]

RECURSIVE SumLen(_, _)
SumLen(ob, us) ==
    IF us = {} THEN 0
    ELSE LET u == CHOOSE x \in us : TRUE IN Len(ob[u]) + SumLen(ob, us \ {u})

\* The unbounded channels are capped: a reader takes its next frame only while
\* fewer than MaxOutbox messages wait in the sinks.
Budget == SumLen(outbox, UserIds) < MaxOutbox

Insert(map, k, v) == [x \in DOMAIN map \cup {k} |-> IF x = k THEN v ELSE map[x]]
Remove(map, k) == [x \in DOMAIN map \ {k} |-> map[x]]

\* ---- user_connected: accept, register, read loop, disconnect ----------------
\* A load of the counter with no add: the next accept draws the same id.
Accept_NoAdd ==
    /\ nextUserId <= MaxUsers
    /\ task' = [task EXCEPT ![nextUserId] = "accepted"]
    /\ nextUserId' = nextUserId
    /\ UNCHANGED <<connections, sessions, outbox, sessionToDelete>>
    /\ UNCHANGED peerVars
    /\ UNCHANGED <<sendVars, lockVars, borrowVars>>

\* NEXT_USER_ID.fetch_add(1): the connection gets the counter's value.
Accept ==
    /\ nextUserId <= MaxUsers
    /\ task[nextUserId] = "none"
    /\ task' = [task EXCEPT ![nextUserId] = "accepted"]
    /\ nextUserId' = nextUserId + 1
    /\ UNCHANGED <<connections, sessions, outbox, sessionToDelete>>
    /\ UNCHANGED peerVars
    /\ UNCHANGED <<sendVars, lockVars, borrowVars>>

\* connections.write().await.insert(user_id, tx)
Register(u) ==
    /\ task[u] = "accepted"
    /\ connections' = connections \cup {u}
    /\ task' = [task EXCEPT ![u] = "open"]
    /\ UNCHANGED <<nextUserId, sessions, outbox, sessionToDelete>>
    /\ UNCHANGED peerVars
    /\ UNCHANGED <<sendVars, lockVars, borrowVars>>

\* The writer task of a connection: rx.next() yields the oldest queued message,
\* which goes out on the websocket.
WriterSend(u) ==
    /\ outbox[u] # <<>>
    /\ outbox' = [outbox EXCEPT ![u] = Tail(@)]
    /\ UNCHANGED <<nextUserId, task, connections, sessions, sessionToDelete>>

\* The message goes to a client that is no part of the specification.
Write(u) ==
    /\ WriterSend(u)
    /\ UNCHANGED peerVars
    /\ UNCHANGED <<sendVars, lockVars, borrowVars>>

\* ---- one-to-one: messages ----------------------------------------------------
O2OSessionJoinMsg(s) == [type |-> "SessionJoin", session |-> s]
O2OSessionReady(s, h) == [type |-> "SessionReady", session |-> s, is_host |-> h]
O2ORelay(t, s, p) == [type |-> t, session |-> s, payload |-> p]
O2OError(s) == [type |-> "Error", session |-> s]
RelayTypes == {"SdpOffer", "SdpAnswer", "IceCandidate"}

O2OClientFrames ==
    {TextJson(O2OSessionJoinMsg(s)) : s \in SessionIds}
    \cup {TextJson(O2ORelay(t, s, p)) : t \in RelayTypes, s \in SessionIds, p \in Payloads}
    \cup {TextJson(O2OSessionReady(s, TRUE)) : s \in SessionIds}
    \cup {Garbage}
    \cup {BinaryRmp(O2OSessionJoinMsg(s)) : s \in SessionIds}

O2OSession(f, s, o) == [first |-> f, second |-> s, offer_received |-> o]

\* ---- one-to-one: user_message -------------------------------------------------
\* SessionJoin on a session id with no entry.
O2OJoinVacant(u, s) ==
    /\ sessions' = Insert(sessions, s, O2OSession(u, None, FALSE))
    /\ UNCHANGED <<task, outbox>>

\* The slot a SessionJoin on an existing entry writes.
O2OJoinOccupiedSession(u, s) == [sessions[s] EXCEPT !.second = u]

\* SessionJoin on a session id that has an entry.
O2OJoinOccupied(u, s) ==
    LET first == sessions[s].first IN
    /\ sessions' = [sessions EXCEPT ![s] = O2OJoinOccupiedSession(u, s)]
    /\ IF first = None
       THEN UNCHANGED <<task, outbox>>
       ELSE IF first \notin connections
       THEN \* connections_reader.get(first_id).unwrap() panics: the task ends
            /\ task' = [task EXCEPT ![u] = "panicked"]
            /\ UNCHANGED outbox
       ELSE /\ outbox' = Send(Send(outbox, first, O2OSessionReady(s, TRUE)),
                              u, O2OSessionReady(s, FALSE))
            /\ UNCHANGED task

O2OSessionJoin(u, s) ==
    /\ IF s \in DOMAIN sessions THEN O2OJoinOccupied(u, s) ELSE O2OJoinVacant(u, s)
    /\ UNCHANGED <<nextUserId, connections, sessionToDelete>>

\* The other member of the session, as the three relay arms compute it.
O2ORecipient(u, session) ==
    IF u = session.first THEN session.second ELSE session.first

\* SdpOffer, SdpAnswer, IceCandidate: pass the message to the other member.
\* A forward path that opens the session it does not find.
O2OForward_CreatesSession(u, m) ==
    /\ sessions' = Insert(sessions, m.session, O2OSession(u, None, m.type = "SdpOffer"))
    /\ UNCHANGED <<nextUserId, connections, sessionToDelete, task, outbox>>

O2OForward(u, m) ==
    LET s == m.session IN
    /\ UNCHANGED <<nextUserId, connections, sessionToDelete>>
    /\ IF s \notin DOMAIN sessions
       THEN UNCHANGED <<sessions, task, outbox>>
       ELSE LET recipient == O2ORecipient(u, sessions[s]) IN
            /\ sessions' = IF m.type = "SdpOffer"
                           THEN [sessions EXCEPT ![s].offer_received = TRUE]
                           ELSE sessions
            /\ IF recipient = None
               THEN UNCHANGED <<task, outbox>>
               ELSE IF recipient \notin connections
               THEN /\ task' = [task EXCEPT ![u] = "panicked"]
                    /\ UNCHANGED outbox
               ELSE /\ outbox' = Send(outbox, recipient, O2ORelay(m.type, s, m.payload))
                    /\ UNCHANGED task

\* A user_message that ends the reader loop on a frame it cannot decode.
O2OUserMessage_ClosesOnError(u, frame) ==
    IF WarpToStr(frame) /\ JsonFromStr(frame)
    THEN CASE frame.msg.type = "SessionJoin" -> O2OSessionJoin(u, frame.msg.session)
           [] frame.msg.type \in RelayTypes -> O2OForward(u, frame.msg)
           [] OTHER -> UNCHANGED serverVars
    ELSE /\ task' = [task EXCEPT ![u] = "unregister"]
         /\ UNCHANGED <<nextUserId, connections, sessions, outbox, sessionToDelete>>

\* user_message of the one-to-one module on one frame of user u.
O2OUserMessage(u, frame) ==
    IF WarpToStr(frame) /\ JsonFromStr(frame)
    THEN CASE frame.msg.type = "SessionJoin" -> O2OSessionJoin(u, frame.msg.session)
           [] frame.msg.type \in RelayTypes -> O2OForward(u, frame.msg)
           [] OTHER -> UNCHANGED serverVars
    ELSE UNCHANGED serverVars

\* The reader loop of user u receives one frame from its client.
O2ORecv(u) ==
    /\ task[u] = "open"
    /\ Budget
    /\ \E frame \in O2OClientFrames : O2OUserMessage(u, frame)
    /\ UNCHANGED peerVars
    /\ UNCHANGED <<sendVars, lockVars, borrowVars>>

\* ---- one-to-one: user_disconnected ----------------------------------------------
\* A disconnect that empties every session the user was in.
O2OPrune_ClearsSession(u, session) ==
    IF u \in {session.first, session.second}
    THEN [session EXCEPT !.first = None, !.second = None]
    ELSE session

O2OPrune(u, session) ==
    IF session.first = u THEN [session EXCEPT !.first = None]
    ELSE IF session.second = u THEN [session EXCEPT !.second = None]
    ELSE session

O2OEmpty(session) == session.first = None /\ session.second = None

\* The reader loop ends; the loop over the sessions runs under one write lock.
\* session_to_delete is the last empty session the iteration meets.
O2ODisconnectPrune(u) ==
    /\ task[u] = "open"
    /\ LET pruned == [s \in DOMAIN sessions |-> O2OPrune(u, sessions[s])]
           empty == {s \in DOMAIN pruned : O2OEmpty(pruned[s])}
       IN /\ sessions' = pruned
          /\ IF empty = {}
             THEN /\ sessionToDelete' = [sessionToDelete EXCEPT ![u] = NoSession]
                  /\ task' = [task EXCEPT ![u] = "unregister"]
             ELSE /\ \E s \in empty :
                        sessionToDelete' = [sessionToDelete EXCEPT ![u] = s]
                  /\ task' = [task EXCEPT ![u] = "delete"]
    /\ UNCHANGED <<nextUserId, connections, outbox>>
    /\ UNCHANGED peerVars
    /\ UNCHANGED <<sendVars, lockVars, borrowVars>>

\* sessions.write().await.remove(&session_id)
O2ODisconnectDelete(u) ==
    /\ task[u] = "delete"
    /\ sessions' = Remove(sessions, sessionToDelete[u])
    /\ task' = [task EXCEPT ![u] = "unregister"]
    /\ sessionToDelete' = [sessionToDelete EXCEPT ![u] = NoSession]
    /\ UNCHANGED <<nextUserId, connections, outbox>>
    /\ UNCHANGED peerVars
    /\ UNCHANGED <<sendVars, lockVars, borrowVars>>

\* connections.write().await.remove(&user_id)
O2ODisconnectUnregister(u) ==
    /\ task[u] = "unregister"
    /\ connections' = connections \ {u}
    /\ task' = [task EXCEPT ![u] = "closed"]
    /\ UNCHANGED <<nextUserId, sessions, outbox, sessionToDelete>>
    /\ UNCHANGED peerVars
    /\ UNCHANGED <<sendVars, lockVars, borrowVars>>

\* ---- one-to-many: messages -------------------------------------------------------
O2MSessionJoinMsg(s, h) == [type |-> "SessionJoin", session |-> s, is_host |-> h]
O2MSessionReady(s, peer) == [type |-> "SessionReady", session |-> s, user |-> peer]
O2MError(s) == [type |-> "Error", session |-> s]

O2MClientFrames ==
    {TextJson(O2MSessionJoinMsg(s, h)) : s \in SessionIds, h \in BOOLEAN}
    \cup {TextJson(O2MSessionReady(s, r)) : s \in SessionIds, r \in UserIds}
    \cup {Garbage}
    \cup {BinaryRmp(O2MSessionJoinMsg(s, TRUE)) : s \in SessionIds}

\* Session::default()
O2MSession(h, us) == [host |-> h, users |-> us]

\* ---- one-to-many: user_message (SessionJoin) ----------------------------------------
\* One SessionReady to the host per entry of session.users, in the Vec's order.
RECURSIVE O2MIntroduce(_, _, _, _)
O2MIntroduce(ob, host, s, clients) ==
    IF clients = <<>> THEN ob
    ELSE O2MIntroduce(Send(ob, host, O2MSessionReady(s, Head(clients))),
                      host, s, Tail(clients))

\* is_host && session.host.is_none()
O2MJoinHost(u, s, session) ==
    /\ sessions' = Insert(sessions, s, [session EXCEPT !.host = u])
    /\ outbox' = O2MIntroduce(outbox, u, s, session.users)
    /\ UNCHANGED task

\* is_host && session.host.is_some(): logged, and the handler returns.
O2MJoinSecondHost(u, s, session) ==
    /\ sessions' = Insert(sessions, s, session)
    /\ UNCHANGED <<task, outbox>>

\* The users Vec once a client's join is handled.
O2MJoinClientUsers(u, session) == Append(session.users, u)

\* The client's join told to the client itself, naming the host.
O2MJoinClient_ToNewcomer(u, s, session) ==
    /\ sessions' = Insert(sessions, s, [session EXCEPT !.users = O2MJoinClientUsers(u, session)])
    /\ IF session.host = None
       THEN UNCHANGED <<task, outbox>>
       ELSE /\ outbox' = Send(outbox, u, O2MSessionReady(s, session.host))
            /\ UNCHANGED task

\* !is_host: the user is pushed, and the host (when there is one) is told.
O2MJoinClient(u, s, session) ==
    /\ sessions' = Insert(sessions, s, [session EXCEPT !.users = O2MJoinClientUsers(u, session)])
    /\ IF session.host = None
       THEN UNCHANGED <<task, outbox>>
       ELSE IF session.host \notin connections
       THEN \* connections_reader.get(&host_id) is None: the expect panics
            /\ task' = [task EXCEPT ![u] = "panicked"]
            /\ UNCHANGED outbox
       ELSE /\ outbox' = Send(outbox, session.host, O2MSessionReady(s, u))
            /\ UNCHANGED task

O2MSessionJoin(u, s, is_host) ==
    LET session == IF s \in DOMAIN sessions THEN sessions[s] ELSE O2MSession(None, <<>>) IN
    /\ IF is_host /\ session.host = None THEN O2MJoinHost(u, s, session)
       ELSE IF is_host /\ session.host # None THEN O2MJoinSecondHost(u, s, session)
       ELSE O2MJoinClient(u, s, session)
    /\ UNCHANGED <<nextUserId, connections, sessionToDelete>>

\* user_message of the one-to-many module on one frame of user u.
O2MUserMessage(u, frame) ==
    IF WarpToStr(frame) /\ JsonFromStr(frame)
    THEN CASE frame.msg.type = "SessionJoin" ->
                  O2MSessionJoin(u, frame.msg.session, frame.msg.is_host)
           [] OTHER -> UNCHANGED serverVars
    ELSE UNCHANGED serverVars

\* The users Vec is capped at MaxClients entries.
O2MRoom(frame) ==
    IF frame.codec = "json" /\ frame.msg.type = "SessionJoin"
    THEN IF frame.msg.session \in DOMAIN sessions
         THEN Len(sessions[frame.msg.session].users) < MaxClients
         ELSE TRUE
    ELSE TRUE

O2MRecv(u) ==
    /\ task[u] = "open"
    /\ Budget
    /\ \E frame \in O2MClientFrames : O2MRoom(frame) /\ O2MUserMessage(u, frame)
    /\ UNCHANGED peerVars
    /\ UNCHANGED <<sendVars, lockVars, borrowVars>>

\* ---- one-to-many: user_disconnected ----------------------------------------------------
\* The loop of user_disconnected reads the fields first and second, which the
\* one-to-many Session does not have: host and users are not touched.  What acts
\* on this module's registries is connections.write().await.remove(&user_id).
O2MDisconnect(u) ==
    /\ task[u] = "open"
    /\ connections' = connections \ {u}
    /\ task' = [task EXCEPT ![u] = "closed"]
    /\ UNCHANGED <<nextUserId, sessions, outbox, sessionToDelete>>
    /\ UNCHANGED peerVars
    /\ UNCHANGED <<sendVars, lockVars, borrowVars>>

\* ---- many-to-many: messages ------------------------------------------------------
\* protocol::one_to_many::SignalMessage, the enum the many-to-many module decodes.
M2MSessionJoinMsg(s, h) == [type |-> "SessionJoin", session |-> s, is_host |-> h]
M2MSessionReady(s, peer) == [type |-> "SessionReady", session |-> s, user |-> peer]
M2MRelay(t, s, peer, p) == [type |-> t, session |-> s, user |-> peer, payload |-> p]
M2MError(s) == [type |-> "Error", session |-> s]

M2MClientFrames ==
    {TextJson(M2MSessionJoinMsg(s, h)) : s \in SessionIds, h \in BOOLEAN}
    \cup {TextJson(M2MRelay(t, s, r, p)) :
             t \in RelayTypes, s \in SessionIds, r \in UserIds, p \in Payloads}
    \cup {TextJson(M2MSessionReady(s, r)) : s \in SessionIds, r \in UserIds}
    \cup {Garbage}
    \cup {BinaryRmp(M2MSessionJoinMsg(s, TRUE)) : s \in SessionIds}

M2MSession(us) == [users |-> us]

\* The orders in which an iteration may visit the elements of a hash set or map.
Orders(S) ==
    {f \in [1..Cardinality(S) -> S] : \A i, j \in 1..Cardinality(S) : f[i] = f[j] => i = j}

\* ---- many-to-many: user_message ----------------------------------------------------
\* One SessionReady per user the iteration over session.users meets, in its order.
RECURSIVE M2MIntroduce(_, _, _, _)
M2MIntroduce(ob, sender, s, order) ==
    IF order = <<>> THEN ob
    ELSE M2MIntroduce(Send(ob, sender, M2MSessionReady(s, Head(order))),
                      sender, s, Tail(order))

\* The join without the insert of the sender.
M2MJoinUsers_NotAdded(sender, users) == users

\* The session's users once the join is handled.
M2MJoinUsers(sender, users) == users \cup {sender}

M2MSessionJoin(sender, s) ==
    LET users == IF s \in DOMAIN sessions THEN sessions[s].users ELSE {} IN
    /\ \E order \in Orders(users) :
           outbox' = M2MIntroduce(outbox, sender, s, order)
    /\ sessions' = Insert(sessions, s, M2MSession(M2MJoinUsers(sender, users)))
    /\ UNCHANGED <<nextUserId, task, connections, sessionToDelete>>

\* The relay that forwards the id the client wrote into the request.
M2MResponse_ClientId(sender, m) == M2MRelay(m.type, m.session, m.user, m.payload)

\* The message the relay arms build from the request.
M2MResponse(sender, m) == M2MRelay(m.type, m.session, sender, m.payload)

\* A forward that unwraps the lookup of the recipient.
M2MForward_Unwraps(sender, m) ==
    /\ IF m.user \in connections
       THEN /\ outbox' = Send(outbox, m.user, M2MResponse(sender, m))
            /\ UNCHANGED task
       ELSE /\ task' = [task EXCEPT ![sender] = "panicked"]
            /\ UNCHANGED outbox
    /\ UNCHANGED <<nextUserId, connections, sessions, sessionToDelete>>

\* SdpOffer, SdpAnswer, IceCandidate: forward to the connection of the stated id.
M2MForward(sender, m) ==
    /\ outbox' = IF m.user \in connections
                 THEN Send(outbox, m.user, M2MResponse(sender, m))
                 ELSE outbox
    /\ UNCHANGED <<nextUserId, task, connections, sessions, sessionToDelete>>

\* A user_message that passes a SessionReady on like an offer.
M2MUserMessage_Rebroadcasts(sender, frame) ==
    IF AxumToText(frame) /\ JsonFromStr(frame)
    THEN CASE frame.msg.type = "SessionJoin" -> M2MSessionJoin(sender, frame.msg.session)
           [] frame.msg.type \in RelayTypes -> M2MForward(sender, frame.msg)
           [] frame.msg.type = "SessionReady" ->
                  /\ outbox' = IF frame.msg.user \in connections
                               THEN Send(outbox, frame.msg.user,
                                         M2MSessionReady(frame.msg.session, sender))
                               ELSE outbox
                  /\ UNCHANGED <<nextUserId, task, connections, sessions, sessionToDelete>>
           [] OTHER -> UNCHANGED serverVars
    ELSE UNCHANGED serverVars

\* user_message of the many-to-many module on one frame of user sender.
M2MUserMessage(sender, frame) ==
    IF AxumToText(frame) /\ JsonFromStr(frame)
    THEN CASE frame.msg.type = "SessionJoin" -> M2MSessionJoin(sender, frame.msg.session)
           [] frame.msg.type \in RelayTypes -> M2MForward(sender, frame.msg)
           [] OTHER -> UNCHANGED serverVars
    ELSE UNCHANGED serverVars

\* The reader loop of a connection receives one frame from its client.
M2MRecv(u) ==
    /\ task[u] = "open"
    /\ Budget
    /\ \E frame \in M2MClientFrames : M2MUserMessage(u, frame)
    /\ UNCHANGED peerVars
    /\ UNCHANGED <<sendVars, lockVars, borrowVars>>

\* ---- many-to-many: user_disconnected -------------------------------------------------
\* The connection is removed while the reader loop goes on.
M2MDisconnectUnregister_StillReading(u) ==
    /\ u \in connections
    /\ task[u] = "open"
    /\ connections' = connections \ {u}
    /\ UNCHANGED <<nextUserId, task, sessions, outbox, sessionToDelete>>
    /\ UNCHANGED peerVars
    /\ UNCHANGED <<sendVars, lockVars, borrowVars>>

\* The reader loop ends: connections.write().await.remove(&user_id)
M2MDisconnectUnregister(u) ==
    /\ task[u] = "open"
    /\ connections' = connections \ {u}
    /\ task' = [task EXCEPT ![u] = "prune"]
    /\ UNCHANGED <<nextUserId, sessions, outbox, sessionToDelete>>
    /\ UNCHANGED peerVars
    /\ UNCHANGED <<sendVars, lockVars, borrowVars>>

\* The loop over the sessions: it stops at the first session it finds empty,
\* and that session is removed.
RECURSIVE M2MPruneLoop(_, _, _)
M2MPruneLoop(u, sess, order) ==
    IF order = <<>> THEN sess
    ELSE LET s == Head(order)
             pruned == [sess EXCEPT ![s].users = @ \ {u}]
         IN IF pruned[s].users = {}
            THEN Remove(pruned, s)
            ELSE M2MPruneLoop(u, pruned, Tail(order))

M2MDisconnectPrune(u) ==
    /\ task[u] = "prune"
    /\ \E order \in Orders(DOMAIN sessions) :
           sessions' = M2MPruneLoop(u, sessions, order)
    /\ task' = [task EXCEPT ![u] = "closed"]
    /\ UNCHANGED <<nextUserId, connections, outbox, sessionToDelete>>
    /\ UNCHANGED peerVars
    /\ UNCHANGED <<sendVars, lockVars, borrowVars>>

\* ---- the peer library: many-to-many NetworkManager ------------------------------------
\* The session every peer of the specification is constructed with.
PeerSession == "s1"
\* The SDP text create_sdp_offer / create_sdp_answer return.
Sdp == "p1"

\* NetworkManager::new: the websocket is connecting, no connection records, no
\* handler awaiting an SDP. Of the RtcPeerConnection of the record of a remote:
\* the operations called on it that have not run yet (chain), whether its remote
\* description is set (described); and the remotes a candidate of which was
\* added to a connection (added) or refused by one (rejected).
NetworkManager ==
    [ws |-> "connecting", pending |-> <<>>, connections |-> {},
     answered |-> {}, remote |-> {}, failed |-> 0, candidates |-> {},
     opened |-> {}, opens |-> [r \in UserIds |-> 0],
     chain |-> [r \in UserIds |-> <<>>], described |-> {},
     added |-> {}, rejected |-> {}]

\* A create_sdp_answer that awaits before it calls set_remote_description.
SdpOfferCalls_AfterAwait == <<>>

\* What create_sdp_answer calls on the new connection before its first await.
SdpOfferCalls == <<"set_remote_description">>

\* on_message of the websocket: the event data is a JsString (a Text frame) that
\* serde_json_wasm::from_str decodes.
LibFromStr(frame) == frame.kind = "Text" /\ frame.codec = "json"

Range(seq) == {seq[i] : i \in 1..Len(seq)}
Bump(count, u, m) == [count EXCEPT ![u][m] = @ + 1]
DropAt(seq, i) == SubSeq(seq, 1, i - 1) \o SubSeq(seq, i + 1, Len(seq))

\* on_open of the websocket: SessionJoin(session_id, is_host) goes out as JSON
\* text; the many-to-many manager is a one-to-many manager with is_host = true.
PeerOnOpen(u) ==
    /\ UNCHANGED <<sendVars, lockVars, borrowVars>>
    /\ task[u] \in {"accepted", "open"}
    /\ peers[u].ws = "connecting"
    /\ peers' = [peers EXCEPT ![u].ws = "open"]
    /\ inbox' = [inbox EXCEPT ![u] = Append(@, TextJson(M2MSessionJoinMsg(PeerSession, TRUE)))]
    /\ UNCHANGED <<readys, offers, offered, o2oPeers>>
    /\ UNCHANGED serverVars

\* The reader loop of the connection takes the next frame of its peer.
M2MRecvFromPeer(u) ==
    /\ UNCHANGED <<sendVars, lockVars, borrowVars>>
    /\ task[u] = "open"
    /\ inbox[u] # <<>>
    /\ M2MUserMessage(u, Head(inbox[u]))
    /\ inbox' = [inbox EXCEPT ![u] = Tail(@)]
    /\ UNCHANGED <<peers, readys, offers, offered, o2oPeers>>

\* handle_websocket_message up to the first await of the arm it takes.
HandleWebsocketMessage(u, m) ==
    CASE m.type = "SessionReady" ->
            \* session_ready: peer connection and data channel, then create_sdp_offer
            /\ readys' = Bump(readys, u, m.user)
            /\ peers' = [peers EXCEPT ![u].pending = Append(@, <<"session_ready", m.user>>)]
            /\ UNCHANGED <<inbox, offers, offered, o2oPeers>>
      [] m.type = "SdpOffer" ->
            \* sdp_offer: the connection record, then create_sdp_answer
            /\ offered' = Bump(offered, u, m.user)
            /\ peers' = [peers EXCEPT ![u].connections = @ \cup {m.user},
                                    ![u].pending = Append(@, <<"sdp_offer", m.user>>),
                                    ![u].chain[m.user] = SdpOfferCalls,
                                    ![u].described = @ \ {m.user}]
            /\ UNCHANGED <<inbox, readys, offers, o2oPeers>>
      [] m.type = "SdpAnswer" ->
            \* the record of the sender, then set_remote_description with its expect
            /\ peers' = IF m.user \notin peers[u].connections THEN peers
                        ELSE IF offers[u][m.user] > 0
                        THEN [peers EXCEPT ![u].remote = @ \cup {m.user},
                                           ![u].chain[m.user] =
                                               Append(@, "set_remote_description")]
                        ELSE [peers EXCEPT ![u].failed = 1]
            /\ UNCHANGED <<inbox, readys, offers, offered, o2oPeers>>
      [] m.type = "IceCandidate" ->
            \* the record of the sender, or an Err that on_message logs; then
            \* add_ice_candidate on its connection
            /\ peers' = IF m.user \notin peers[u].connections THEN peers
                        ELSE [peers EXCEPT ![u].chain[m.user] =
                                               Append(@, "add_ice_candidate")]
            /\ UNCHANGED <<inbox, readys, offers, offered, o2oPeers>>
      [] OTHER -> UNCHANGED peerVars

\* The writer task sends the oldest queued message as a Text frame of JSON, and
\* on_message of the websocket of the peer spawns its handler.
PeerOnMessage(u) ==
    /\ UNCHANGED <<sendVars, lockVars, borrowVars>>
    /\ WriterSend(u)
    /\ IF LibFromStr(TextJson(Head(outbox[u])))
       THEN HandleWebsocketMessage(u, Head(outbox[u]))
       ELSE UNCHANGED peerVars

\* The RtcPeerConnection of the record that peer u holds for remote r runs the
\* oldest operation called on it: its operations run one at a time, in the order
\* of the calls. add_ice_candidate is refused while no remote description is
\* set; its Err ends the handler, and on_message logs it.
PeerConnectionRun(u, r) ==
    /\ UNCHANGED <<sendVars, lockVars, borrowVars>>
    /\ peers[u].chain[r] # <<>>
    /\ LET op == Head(peers[u].chain[r])
           ran == [peers EXCEPT ![u].chain[r] = Tail(@)]
       IN peers' = IF op = "set_remote_description"
                   THEN [ran EXCEPT ![u].described = @ \cup {r}]
                   ELSE IF r \in peers[u].described
                   THEN [ran EXCEPT ![u].added = @ \cup {r}]
                   ELSE [ran EXCEPT ![u].rejected = @ \cup {r}]
    /\ UNCHANGED <<inbox, readys, offers, offered, o2oPeers>>
    /\ UNCHANGED serverVars

\* A session_ready that sends the offer and awaits again before it records the
\* connection.
PeerResume_InsertsLater(u) ==
    /\ UNCHANGED <<sendVars, lockVars, borrowVars>>
    /\ \E i \in 1..Len(peers[u].pending) :
         LET arm == peers[u].pending[i][1]
             m == peers[u].pending[i][2]
         IN IF arm = "session_ready"
            THEN /\ inbox' = [inbox EXCEPT ![u] =
                        Append(@, BinaryRmp(M2MRelay("SdpOffer", PeerSession, m, Sdp)))]
                 /\ offers' = Bump(offers, u, m)
                 /\ peers' = [peers EXCEPT ![u].pending = DropAt(@, i)]
            ELSE /\ "set_remote_description" \notin Range(peers[u].chain[m])
                 /\ inbox' = [inbox EXCEPT ![u] =
                        Append(@, BinaryRmp(M2MRelay("SdpAnswer", PeerSession, m, Sdp)))]
                 /\ offers' = offers
                 /\ peers' = [peers EXCEPT ![u].pending = DropAt(@, i),
                                         ![u].answered = @ \cup {m}]
    /\ UNCHANGED <<readys, offered, o2oPeers>>
    /\ UNCHANGED serverVars

\* A spawned handler resumes when its SDP is ready: session_ready sends the
\* SdpOffer, sdp_offer the SdpAnswer, both as MessagePack in a Binary frame;
\* session_ready then records the connection it created. The SDP of sdp_offer
\* is ready once set_remote_description has run.
PeerResume(u) ==
    /\ UNCHANGED <<sendVars, lockVars, borrowVars>>
    /\ \E i \in 1..Len(peers[u].pending) :
         LET arm == peers[u].pending[i][1]
             m == peers[u].pending[i][2]
         IN IF arm = "session_ready"
            THEN /\ inbox' = [inbox EXCEPT ![u] =
                        Append(@, BinaryRmp(M2MRelay("SdpOffer", PeerSession, m, Sdp)))]
                 /\ offers' = Bump(offers, u, m)
                 /\ peers' = [peers EXCEPT ![u].pending = DropAt(@, i),
                                         ![u].connections = @ \cup {m},
                                         ![u].chain[m] = <<>>,
                                         ![u].described = @ \ {m}]
            ELSE /\ "set_remote_description" \notin Range(peers[u].chain[m])
                 /\ inbox' = [inbox EXCEPT ![u] =
                        Append(@, BinaryRmp(M2MRelay("SdpAnswer", PeerSession, m, Sdp)))]
                 /\ offers' = offers
                 /\ peers' = [peers EXCEPT ![u].pending = DropAt(@, i),
                                         ![u].answered = @ \cup {m}]
    /\ UNCHANGED <<readys, offered, o2oPeers>>
    /\ UNCHANGED serverVars

\* The peer connections of u and r are negotiated with each other: one sent the
\* offer and applied the other's answer.
Negotiated(u, r) ==
    \/ offers[u][r] > 0 /\ r \in peers[u].remote /\ u \in peers[r].answered
    \/ offers[r][u] > 0 /\ u \in peers[r].remote /\ r \in peers[u].answered

\* An event of the RtcPeerConnection that peer u holds for remote r, or of its
\* data channel.
PeerConnectionEvent(u, r, ev) ==
    /\ UNCHANGED <<sendVars, lockVars, borrowVars>>
    /\ UNCHANGED <<readys, offers, offered, o2oPeers>>
    /\ UNCHANGED serverVars
    /\ CASE ev = "icecandidate" ->
              \* on_ice_candidate, once a local description is set: JSON text
              /\ offers[u][r] > 0 \/ r \in peers[u].answered
              /\ r \notin peers[u].candidates
              /\ peers' = [peers EXCEPT ![u].candidates = @ \cup {r}]
              /\ inbox' = [inbox EXCEPT ![u] =
                      Append(@, TextJson(M2MRelay("IceCandidate", PeerSession, r, Sdp)))]
         [] ev = "open" ->
              \* the data channel of the pair opens: on_open_callback(r)
              /\ Negotiated(u, r)
              /\ r \notin peers[u].opened
              /\ peers' = [peers EXCEPT ![u].opened = @ \cup {r},
                                      ![u].opens[r] = @ + 1]
              /\ UNCHANGED inbox

PeerConnectionEvents == {"icecandidate", "open"}

\* ---- the peer library: one-to-one NetworkManager ------------------------------------------
\* NetworkManager::new of the one-to-one module, with what the peer has done so
\* far: the is_host flags of the SessionReady messages it handled (told), the
\* handlers that await an SDP (pending), the SdpOffer frames it sent (sent).
O2ONetworkManager ==
    [ws |-> "connecting", told |-> {}, pending |-> <<>>, sent |-> 0,
     local |-> "none", remote |-> FALSE, answers |-> 0, candidates |-> 0, failed |-> 0,
     own |-> "connecting", theirs |-> "none", wire |-> <<>>, opens |-> 0, messages |-> <<>>,
     executor |-> "running"]

\* on_open of the websocket: SessionJoin(session_id) goes out as JSON text.
O2OPeerOnOpen(u) ==
    /\ UNCHANGED <<sendVars, lockVars, borrowVars>>
    /\ task[u] \in {"accepted", "open"}
    /\ o2oPeers[u].ws = "connecting"
    /\ o2oPeers' = [o2oPeers EXCEPT ![u].ws = "open"]
    /\ inbox' = [inbox EXCEPT ![u] = Append(@, TextJson(O2OSessionJoinMsg(PeerSession)))]
    /\ UNCHANGED <<peers, readys, offers, offered>>
    /\ UNCHANGED serverVars

\* The reader loop of the connection takes the next frame of its peer.
O2ORecvFromPeer(u) ==
    /\ UNCHANGED <<sendVars, lockVars, borrowVars>>
    /\ task[u] = "open"
    /\ inbox[u] # <<>>
    /\ O2OUserMessage(u, Head(inbox[u]))
    /\ inbox' = [inbox EXCEPT ![u] = Tail(@)]
    /\ UNCHANGED <<peers, readys, offers, offered, o2oPeers>>

\* The SessionReady arm without its test of the flag.
O2OPeerOffers_Always(is_host) == TRUE

\* The SessionReady arm creates an offer when the flag says so: if is_host { .. }
O2OPeerOffers(is_host) == is_host

\* handle_websocket_message of the one-to-one module up to its first await; the
\* SdpAnswer and IceCandidate arms end at their await, with an expect that fails
\* when the peer connection is in no state to take the description or candidate.
\* What is left of the executor of spawn_local after a task panicked inside it: the
\* panic aborts (no unwinding on wasm32), so the queue either goes on with the
\* next task or is left marked as running and runs no task again.
ExecutorAfterPanic == {"running", "stuck"}

\* An expect on a rejected promise panics in the spawned handler.
O2OExpectFailed(u) ==
    \E e \in ExecutorAfterPanic :
        o2oPeers' = [o2oPeers EXCEPT ![u].failed = 1, ![u].executor = e]

O2OHandleWebsocketMessage(u, m) ==
    CASE m.type = "SessionReady" ->
            o2oPeers' = [o2oPeers EXCEPT
                ![u].told = @ \cup {m.is_host},
                ![u].pending = IF O2OPeerOffers(m.is_host)
                               THEN Append(@, "session_ready") ELSE @]
      [] m.type = "SdpOffer" ->
            o2oPeers' = [o2oPeers EXCEPT ![u].pending = Append(@, "sdp_offer")]
      [] m.type = "SdpAnswer" ->
            IF o2oPeers[u].local = "offer"
            THEN o2oPeers' = [o2oPeers EXCEPT ![u].remote = TRUE]
            ELSE O2OExpectFailed(u)
      [] m.type = "IceCandidate" ->
            IF o2oPeers[u].remote
            THEN o2oPeers' = o2oPeers
            ELSE O2OExpectFailed(u)
      [] OTHER -> UNCHANGED o2oPeers

\* The writer task sends the oldest queued message as a Text frame of JSON, and
\* on_message of the websocket of the peer spawns its handler.
O2OPeerOnMessage(u) ==
    /\ UNCHANGED <<sendVars, lockVars, borrowVars>>
    /\ WriterSend(u)
    /\ IF LibFromStr(TextJson(Head(outbox[u]))) /\ o2oPeers[u].executor = "running"
       THEN O2OHandleWebsocketMessage(u, Head(outbox[u]))
       ELSE UNCHANGED o2oPeers
    /\ UNCHANGED <<inbox, peers, readys, offers, offered>>

\* A spawned handler resumes with its SDP, which is now the local description
\* (create_sdp_answer has set the offer as the remote one), and sends the SdpOffer
\* (SessionReady arm) or the SdpAnswer (SdpOffer arm) as MessagePack in a Binary frame.
O2OPeerResume(u) ==
    /\ UNCHANGED <<sendVars, lockVars, borrowVars>>
    /\ o2oPeers[u].executor = "running"
    /\ \E i \in 1..Len(o2oPeers[u].pending) :
         LET arm == o2oPeers[u].pending[i] IN
         IF arm = "session_ready"
         THEN /\ inbox' = [inbox EXCEPT ![u] =
                     Append(@, BinaryRmp(O2ORelay("SdpOffer", PeerSession, Sdp)))]
              /\ o2oPeers' = [o2oPeers EXCEPT ![u].pending = DropAt(@, i),
                                              ![u].local = "offer",
                                              ![u].sent = @ + 1]
         ELSE /\ inbox' = [inbox EXCEPT ![u] =
                     Append(@, BinaryRmp(O2ORelay("SdpAnswer", PeerSession, Sdp)))]
              /\ o2oPeers' = [o2oPeers EXCEPT ![u].pending = DropAt(@, i),
                                              ![u].remote = TRUE,
                                              ![u].local = "answer",
                                              ![u].answers = 1]
    /\ UNCHANGED <<peers, readys, offers, offered>>
    /\ UNCHANGED serverVars

\* ---- a client that speaks the server's encoding ------------------------------------------
RECURSIVE OffersSent(_)
\* The offers the clients have sent over the pairs of the set.
OffersSent(pairs) ==
    IF pairs = {} THEN 0
    ELSE LET q == CHOOSE x \in pairs : TRUE IN offers[q[1]][q[2]] + OffersSent(pairs \ {q})

\* The client behind connection u puts one more SdpOffer for r on its websocket,
\* as JSON text; the SDP it carries is numbered by the offers u has sent to r.
\* The clients send MaxRelayed + 1 offers between them, at most MaxRelayed over one pair.
ClientSendOffer(u, r) ==
    /\ UNCHANGED <<sendVars, lockVars, borrowVars>>
    /\ task[u] \in {"accepted", "open"}
    /\ OffersSent(UserIds \X UserIds) <= MaxRelayed
    /\ offers[u][r] < MaxRelayed
    /\ offers' = Bump(offers, u, r)
    /\ inbox' = [inbox EXCEPT ![u] =
            Append(@, TextJson(M2MRelay("SdpOffer", PeerSession, r, offers[u][r] + 1)))]
    /\ UNCHANGED <<peers, readys, offered, o2oPeers>>
    /\ UNCHANGED serverVars

\* A connection is used by a peer of the library or by a user that writes its own
\* frames, not by both: the socket of a library peer opens on a connection that
\* has sent nothing.
LibraryPeerOnOpen(u) ==
    /\ OffersSent({u} \X UserIds) = 0
    /\ PeerOnOpen(u)

\* The SDP and candidate frames the users that are no peers of the library have
\* written; they write MaxSignals of them between them.
OtherUserSent ==
    OffersSent(UserIds \X UserIds)
    + Cardinality({q \in UserIds \X UserIds :
                      peers[q[1]].ws = "connecting" /\ q[2] \in peers[q[1]].answered})
    + Cardinality({q \in UserIds \X UserIds :
                      peers[q[1]].ws = "connecting" /\ q[2] \in peers[q[1]].candidates})

\* A user that is no peer of the library sends an SdpOffer naming a peer of the
\* library. The server reads the frames of a connection in their order, so the
\* user is taken to write a frame when the server has read the one before.
OtherUserSendOffer(u, r) ==
    /\ peers[u].ws = "connecting"
    /\ peers[r].ws = "open"
    /\ inbox[u] = <<>>
    /\ OtherUserSent < MaxSignals
    /\ ClientSendOffer(u, r)

\* The server accepts the connections of MaxNegotiators users.
AcceptNegotiator ==
    /\ nextUserId <= MaxNegotiators
    /\ Accept

\* A peer of the library: its websocket has opened.
LibraryPeerOnMessage(u) ==
    /\ peers[u].ws = "open"
    /\ PeerOnMessage(u)

\* The other user joins the session of the peers, once, before anything else.
OtherUserJoin(u) ==
    /\ UNCHANGED <<sendVars, lockVars, borrowVars>>
    /\ task[u] \in {"accepted", "open"}
    /\ peers[u].ws = "connecting"
    /\ inbox[u] = <<>>
    /\ \A s \in DOMAIN sessions : u \notin sessions[s].users
    /\ OffersSent({u} \X UserIds) = 0
    /\ peers[u].answered = {} /\ peers[u].candidates = {}
    /\ inbox' = [inbox EXCEPT ![u] = Append(@, TextJson(M2MSessionJoinMsg(PeerSession, TRUE)))]
    /\ UNCHANGED <<peers, readys, offers, offered, o2oPeers>>
    /\ UNCHANGED serverVars

\* The other user answers a peer of the library, once: an SdpAnswer as JSON text.
OtherUserSendAnswer(u, r) ==
    /\ UNCHANGED <<sendVars, lockVars, borrowVars>>
    /\ task[u] \in {"accepted", "open"}
    /\ peers[u].ws = "connecting"
    /\ peers[r].ws = "open"
    /\ inbox[u] = <<>>
    /\ OtherUserSent < MaxSignals
    /\ r \notin peers[u].answered
    /\ peers' = [peers EXCEPT ![u].answered = @ \cup {r}]
    /\ inbox' = [inbox EXCEPT ![u] =
            Append(@, TextJson(M2MRelay("SdpAnswer", PeerSession, r, Sdp)))]
    /\ UNCHANGED <<readys, offers, offered, o2oPeers>>
    /\ UNCHANGED serverVars

\* The other user sends a candidate of its connection with a peer of the library,
\* once, after the offer or the answer that gave the connection its local
\* description: an IceCandidate as JSON text.
OtherUserSendCandidate(u, r) ==
    /\ UNCHANGED <<sendVars, lockVars, borrowVars>>
    /\ task[u] \in {"accepted", "open"}
    /\ peers[u].ws = "connecting"
    /\ peers[r].ws = "open"
    /\ inbox[u] = <<>>
    /\ OtherUserSent < MaxSignals
    /\ offers[u][r] > 0 \/ r \in peers[u].answered
    /\ r \notin peers[u].candidates
    /\ peers' = [peers EXCEPT ![u].candidates = @ \cup {r}]
    /\ inbox' = [inbox EXCEPT ![u] =
            Append(@, TextJson(M2MRelay("IceCandidate", PeerSession, r, Sdp)))]
    /\ UNCHANGED <<readys, offers, offered, o2oPeers>>
    /\ UNCHANGED serverVars

\* What the server sends to the other user goes to a client outside the library.
OtherUserOnMessage(u) ==
    /\ peers[u].ws = "connecting"
    /\ Write(u)

\* ---- one-to-many: peers of the library ----------------------------------------------
\* on_open of the websocket of a MiniServer (is_host = TRUE) or a MiniClient
\* (is_host = FALSE): SessionJoin(session_id, is_host) goes out as JSON text.
O2MPeerOnOpen(u, is_host) ==
    /\ UNCHANGED <<sendVars, lockVars, borrowVars>>
    /\ task[u] \in {"accepted", "open"}
    /\ peers[u].ws = "connecting"
    /\ peers' = [peers EXCEPT ![u].ws = "open"]
    /\ inbox' = [inbox EXCEPT ![u] = Append(@, TextJson(O2MSessionJoinMsg(PeerSession, is_host)))]
    /\ UNCHANGED <<readys, offers, offered, o2oPeers>>
    /\ UNCHANGED serverVars

\* The reader loop of the connection takes the next frame of its peer.
O2MRecvFromPeer(u) ==
    /\ UNCHANGED <<sendVars, lockVars, borrowVars>>
    /\ task[u] = "open"
    /\ inbox[u] # <<>>
    /\ O2MUserMessage(u, Head(inbox[u]))
    /\ inbox' = [inbox EXCEPT ![u] = Tail(@)]
    /\ UNCHANGED <<peers, readys, offers, offered, o2oPeers>>

\* ---- library: data channels and send ----------------------------------------------
\* A connections entry by remote user: "absent" is no entry, "none" an entry whose
\* data_channel is None, otherwise the readyState of the entry's data channel.
ChannelStates == {"connecting", "open"}

\* session_ready, after its offer went out: the entry with the channel it created.
SessionReadyInsert(peer_id) ==
    /\ dataChannels' = [dataChannels EXCEPT ![peer_id] = "connecting"]
    /\ UNCHANGED <<dataChannel, attempts, o2oAttempts, result>>
    /\ UNCHANGED <<serverVars, peerVars, lockVars, borrowVars>>

\* sdp_offer: the entry without a data channel.
SdpOfferInsert(peer_id) ==
    /\ dataChannels' = [dataChannels EXCEPT ![peer_id] = "none"]
    /\ UNCHANGED <<dataChannel, attempts, o2oAttempts, result>>
    /\ UNCHANGED <<serverVars, peerVars, lockVars, borrowVars>>

\* on_datachannel of the peer connection to client_id: the entry, when there is
\* one, takes the channel of the event; otherwise the error is logged.
OnDataChannel(client_id, state) ==
    /\ dataChannels' = IF dataChannels[client_id] = "absent" THEN dataChannels
                       ELSE [dataChannels EXCEPT ![client_id] = state]
    /\ UNCHANGED <<dataChannel, attempts, o2oAttempts, result>>
    /\ UNCHANGED <<serverVars, peerVars, lockVars, borrowVars>>

\* The open event of the data channel to client_id.
DataChannelOnOpen(client_id) ==
    /\ dataChannels[client_id] = "connecting"
    /\ dataChannels' = [dataChannels EXCEPT ![client_id] = "open"]
    /\ UNCHANGED <<dataChannel, attempts, o2oAttempts, result>>
    /\ UNCHANGED <<serverVars, peerVars, lockVars, borrowVars>>

\* RtcDataChannel.send: Ok on an open channel that takes the data, Err otherwise
\* (InvalidStateError unless readyState is open).
SendWithU8Array(state, rejects) == state = "open" /\ ~ rejects

\* send_message of the one-to-many NetworkManager returning at once with its first error.
SendMessage_NoRecordOk(user_id, serializes, rejects) ==
    /\ attempts[user_id] < MaxSends
    /\ IF ~ serializes
       THEN result' = "Err: serialize" /\ UNCHANGED attempts
       ELSE IF dataChannels[user_id] \in {"absent", "none"}
       THEN result' = "Ok" /\ UNCHANGED attempts
       ELSE /\ attempts' = [attempts EXCEPT ![user_id] = @ + 1]
            /\ result' = IF SendWithU8Array(dataChannels[user_id], rejects)
                         THEN "Ok" ELSE "Err: failed to send"
    /\ UNCHANGED <<dataChannels, dataChannel, o2oAttempts>>
    /\ UNCHANGED <<serverVars, peerVars, lockVars, borrowVars>>

\* send_message of the one-to-many NetworkManager.
SendMessage(user_id, serializes, rejects) ==
    /\ attempts[user_id] < MaxSends
    /\ IF ~ serializes
       THEN result' = "Err: serialize" /\ UNCHANGED attempts
       ELSE IF dataChannels[user_id] = "absent"
       THEN result' = "Err: no connection" /\ UNCHANGED attempts
       ELSE IF dataChannels[user_id] = "none"
       THEN result' = "Err: no data channel" /\ UNCHANGED attempts
       ELSE /\ attempts' = [attempts EXCEPT ![user_id] = @ + 1]
            /\ result' = IF SendWithU8Array(dataChannels[user_id], rejects)
                         THEN "Ok" ELSE "Err: failed to send"
    /\ UNCHANGED <<dataChannels, dataChannel, o2oAttempts>>
    /\ UNCHANGED <<serverVars, peerVars, lockVars, borrowVars>>

\* connections.values().filter_map(|connection| connection.data_channel.as_ref())
WithDataChannel == {r \in UserIds : dataChannels[r] \in ChannelStates}

\* The loop of send_message_to_all giving up at the first failed send.
RECURSIVE SendToAllLoop_StopsOnFailure(_, _, _)
SendToAllLoop_StopsOnFailure(att, order, rejecting) ==
    IF order = <<>> THEN att
    ELSE LET r == Head(order)
             _result == SendWithU8Array(dataChannels[r], r \in rejecting)
         IN IF _result
            THEN SendToAllLoop_StopsOnFailure([att EXCEPT ![r] = @ + 1], Tail(order), rejecting)
            ELSE [att EXCEPT ![r] = @ + 1]

\* The loop of send_message_to_all: one send per data channel, in the iteration's
\* order; _result is dropped.
RECURSIVE SendToAllLoop(_, _, _)
SendToAllLoop(att, order, rejecting) ==
    IF order = <<>> THEN att
    ELSE LET r == Head(order)
             _result == SendWithU8Array(dataChannels[r], r \in rejecting)
         IN SendToAllLoop([att EXCEPT ![r] = @ + 1], Tail(order), rejecting)

\* send_message_to_all of the one-to-many NetworkManager.
SendMessageToAll(serializes, rejecting) ==
    /\ \A r \in UserIds : attempts[r] < MaxSends
    /\ IF ~ serializes
       THEN result' = "Err: serialize" /\ UNCHANGED attempts
       ELSE /\ \E order \in Orders(WithDataChannel) :
                    attempts' = SendToAllLoop(attempts, order, rejecting)
            /\ result' = "Ok"
    /\ UNCHANGED <<dataChannels, dataChannel, o2oAttempts>>
    /\ UNCHANGED <<serverVars, peerVars, lockVars, borrowVars>>

\* start of the one-to-one NetworkManager: the data channel it creates.
O2OStart ==
    /\ dataChannel = "none"
    /\ dataChannel' = "connecting"
    /\ UNCHANGED <<dataChannels, attempts, o2oAttempts, result>>
    /\ UNCHANGED <<serverVars, peerVars, lockVars, borrowVars>>

\* on_datachannel of the one-to-one peer connection: data_channel takes the channel
\* of the event.
O2OOnDataChannel(state) ==
    /\ dataChannel # "none"
    /\ dataChannel' = state
    /\ UNCHANGED <<dataChannels, attempts, o2oAttempts, result>>
    /\ UNCHANGED <<serverVars, peerVars, lockVars, borrowVars>>

\* The open event of the one-to-one data channel.
O2ODataChannelOnOpen ==
    /\ dataChannel = "connecting"
    /\ dataChannel' = "open"
    /\ UNCHANGED <<dataChannels, attempts, o2oAttempts, result>>
    /\ UNCHANGED <<serverVars, peerVars, lockVars, borrowVars>>

\* send_message of the one-to-one NetworkManager; datachannel() is its lookup.
O2OSendMessage(serializes, rejects) ==
    /\ o2oAttempts < MaxSends
    /\ IF ~ serializes
       THEN result' = "Err: serialize" /\ UNCHANGED o2oAttempts
       ELSE IF dataChannel = "none"
       THEN result' = "Err: no data channel" /\ UNCHANGED o2oAttempts
       ELSE /\ o2oAttempts' = o2oAttempts + 1
            /\ result' = IF SendWithU8Array(dataChannel, rejects)
                         THEN "Ok" ELSE "Err: failed to send"
    /\ UNCHANGED <<dataChannels, dataChannel, attempts>>
    /\ UNCHANGED <<serverVars, peerVars, lockVars, borrowVars>>

\* ---- the peer library: one-to-one data channel ------------------------------------------
\* A data channel frame: send_message writes the MessagePack bytes of the message
\* with send_with_u8_array.
DataBinary(text) == [kind |-> "binary", data |-> text]
DataString(text) == [kind |-> "string", data |-> text]

\* set_data_channel_on_message: ev.data().as_string() is Some for a string frame.
AsString(frame) == frame.kind = "string"

\* The two peers of the integration test: peer 1 pings from on_open, the others
\* answer every message with a pong.
PingsOnOpen(u) == u = 1

\* The peer connection of u is negotiated with that of v: each has its local and
\* remote description, one side's an offer and the other's an answer.
O2ONegotiated(u, v) ==
    /\ u # v
    /\ o2oPeers[u].remote /\ o2oPeers[v].remote
    /\ {o2oPeers[u].local, o2oPeers[v].local} = {"offer", "answer"}

\* send_message from a user callback: data_channel is the channel on_datachannel
\* stored, or else the one start created; the frame reaches the remote peer v.
O2OCallbackSend(np, u, v, text) ==
    LET channel == IF np[u].theirs # "none" THEN np[u].theirs ELSE np[u].own IN
    IF SendWithU8Array(channel, FALSE)
    THEN [np EXCEPT ![v].wire = Append(@, DataBinary(text))]
    ELSE [np EXCEPT ![u].failed = 1]

\* on_open of a data channel of u: the user's on_open callback runs.
O2OOnOpenCallback(np, u, v) ==
    LET opened == [np EXCEPT ![u].opens = @ + 1] IN
    IF PingsOnOpen(u) THEN O2OCallbackSend(opened, u, v, "ping") ELSE opened

\* An event of the RtcPeerConnection of peer u or of one of its data channels.
\* A peer connection that gathers candidates from its construction and a socket
\* that takes them whatever its state.
O2OOnIceCandidate_FromStart(u) ==
    /\ o2oPeers[u].candidates < MaxCandidates
    /\ o2oPeers' = [o2oPeers EXCEPT ![u].candidates = @ + 1]
    /\ inbox' = [inbox EXCEPT ![u] =
            Append(@, TextJson(O2ORelay("IceCandidate", PeerSession, Sdp)))]

\* on_ice_candidate: candidates are gathered once a local description is set; the
\* candidate goes out as JSON text, and a send the socket refuses is logged.
O2OOnIceCandidate(u) ==
    /\ o2oPeers[u].local # "none"
    /\ o2oPeers[u].candidates < MaxCandidates
    /\ o2oPeers' = [o2oPeers EXCEPT ![u].candidates = @ + 1]
    /\ inbox' = IF o2oPeers[u].ws = "open"
                THEN [inbox EXCEPT ![u] =
                         Append(@, TextJson(O2ORelay("IceCandidate", PeerSession, Sdp)))]
                ELSE inbox

O2OPeerConnectionEvent(u, ev) ==
    /\ UNCHANGED <<sendVars, lockVars, borrowVars>>
    /\ UNCHANGED <<peers, readys, offers, offered>>
    /\ UNCHANGED serverVars
    /\ CASE ev = "icecandidate" ->
              O2OOnIceCandidate(u)
         [] ev = "open" ->
              \* the channel start created opens
              /\ o2oPeers[u].own = "connecting"
              /\ \E v \in UserIds :
                     /\ O2ONegotiated(u, v)
                     /\ o2oPeers' = O2OOnOpenCallback(
                            [o2oPeers EXCEPT ![u].own = "open"], u, v)
              /\ UNCHANGED inbox
         [] ev = "datachannel" ->
              \* on_datachannel: the channel the remote peer created is stored
              /\ o2oPeers[u].theirs = "none"
              /\ \E v \in UserIds : O2ONegotiated(u, v)
              /\ o2oPeers' = [o2oPeers EXCEPT ![u].theirs = "connecting"]
              /\ UNCHANGED inbox
         [] ev = "open theirs" ->
              /\ o2oPeers[u].theirs = "connecting"
              /\ \E v \in UserIds :
                     /\ O2ONegotiated(u, v)
                     /\ o2oPeers' = O2OOnOpenCallback(
                            [o2oPeers EXCEPT ![u].theirs = "open"], u, v)
              /\ UNCHANGED inbox
         [] ev = "message" ->
              \* on_message of a data channel: the user's callback runs on a string
              /\ o2oPeers[u].wire # <<>>
              /\ LET frame == Head(o2oPeers[u].wire)
                     taken == [o2oPeers EXCEPT ![u].wire = Tail(@)]
                     called == [taken EXCEPT ![u].messages = Append(@, frame.data)]
                 IN \E v \in UserIds :
                     /\ O2ONegotiated(u, v)
                     /\ o2oPeers' = IF ~ AsString(frame) THEN taken
                                    ELSE IF PingsOnOpen(u) THEN called
                                    ELSE O2OCallbackSend(called, u, v, "pong")
              /\ UNCHANGED inbox

O2OPeerConnectionEvents == {"icecandidate", "open", "datachannel", "open theirs", "message"}

\* ---- one-to-one: the two registry locks ------------------------------------------------
\* Sessions and Connections are each an Arc<RwLock<HashMap>> (tokio).
Locks == {"sessions", "connections"}

AcquireOp(l, m) == [op |-> "acquire", lock |-> l, mode |-> m]
ReleaseOp(l) == [op |-> "release", lock |-> l]
\* An unwrap on a registry lookup or on a send, made with guards alive.
UnwrapOp == [op |-> "unwrap"]

\* user_connected: connections.write().await.insert(user_id, tx)
UserConnectedLocks == <<AcquireOp("connections", "write"), ReleaseOp("connections")>>

\* SessionJoin: the guard of sessions.write() lives to the end of the match; the
\* Occupied arm takes connections.read() under it.
SessionJoinLocks(occupied) ==
    IF occupied
    THEN <<AcquireOp("sessions", "write"), AcquireOp("connections", "read"), UnwrapOp,
           ReleaseOp("connections"), ReleaseOp("sessions")>>
    ELSE <<AcquireOp("sessions", "write"), ReleaseOp("sessions")>>

\* SdpOffer (sessions.write()), SdpAnswer and IceCandidate (sessions.read()): with
\* a recipient, connections.read() is taken under the sessions guard.
ForwardLocks(mode, recipient) ==
    IF recipient
    THEN <<AcquireOp("sessions", mode), AcquireOp("connections", "read"), UnwrapOp,
           ReleaseOp("connections"), ReleaseOp("sessions")>>
    ELSE <<AcquireOp("sessions", mode), ReleaseOp("sessions")>>

\* user_disconnected taking the sessions lock while it holds the connections lock.
UserDisconnectedLocks_ConnectionsFirst(delete) ==
    <<AcquireOp("connections", "write"), AcquireOp("sessions", "write"),
      ReleaseOp("sessions"), ReleaseOp("connections")>>

\* user_disconnected: the loop under sessions.write(), the removal of the empty
\* session under a second sessions.write(), then connections.write(); each guard
\* is dropped before the next lock is asked for.
UserDisconnectedLocks(delete) ==
    <<AcquireOp("sessions", "write"), ReleaseOp("sessions")>>
    \o (IF delete THEN <<AcquireOp("sessions", "write"), ReleaseOp("sessions")>> ELSE <<>>)
    \o <<AcquireOp("connections", "write"), ReleaseOp("connections")>>

\* The handlers user_message can run on a frame.
UserMessageLocks ==
    {SessionJoinLocks(occupied) : occupied \in BOOLEAN}
    \cup {ForwardLocks(mode, recipient) : mode \in {"read", "write"}, recipient \in BOOLEAN}

Holds(u, l) == \E g \in held[l] : g[1] = u
Queued(u, l) == \E i \in 1..Len(waiting[l]) : waiting[l][i][1] = u

\* A connection is accepted and its task starts.
LockConnect(u) ==
    /\ phase[u] = "new"
    /\ phase' = [phase EXCEPT ![u] = "connecting"]
    /\ running' = [running EXCEPT ![u] = UserConnectedLocks]
    /\ UNCHANGED <<held, waiting>>
    /\ UNCHANGED <<serverVars, peerVars, sendVars, borrowVars>>

\* The reader loop gets a frame and calls user_message.
LockUserMessage(u) ==
    /\ phase[u] = "loop"
    /\ running[u] = <<>>
    /\ \E program \in UserMessageLocks : running' = [running EXCEPT ![u] = program]
    /\ UNCHANGED <<phase, held, waiting>>
    /\ UNCHANGED <<serverVars, peerVars, sendVars, borrowVars>>

\* The reader loop ends and user_disconnected runs.
LockUserDisconnected(u) ==
    /\ phase[u] = "loop"
    /\ running[u] = <<>>
    /\ phase' = [phase EXCEPT ![u] = "disconnecting"]
    /\ \E delete \in BOOLEAN : running' = [running EXCEPT ![u] = UserDisconnectedLocks(delete)]
    /\ UNCHANGED <<held, waiting>>
    /\ UNCHANGED <<serverVars, peerVars, sendVars, borrowVars>>

\* Where the task is once its handler has nothing left to do.
AfterHandler(u, rest) ==
    IF rest # <<>> THEN phase[u]
    ELSE IF phase[u] = "disconnecting" THEN "closed"
    ELSE "loop"

\* lock.read() / lock.write(): the acquisition joins the queue of the lock.
LockRequest(u) ==
    /\ running[u] # <<>>
    /\ Head(running[u]).op = "acquire"
    /\ LET l == Head(running[u]).lock IN
       /\ ~ Queued(u, l)
       /\ waiting' = [waiting EXCEPT ![l] = Append(@, <<u, Head(running[u]).mode>>)]
    /\ UNCHANGED <<phase, running, held>>
    /\ UNCHANGED <<serverVars, peerVars, sendVars, borrowVars>>

\* The acquisition at the head of the queue gets the lock: a writer when no guard
\* is alive, a reader when no write guard is.
LockGrant(u) ==
    /\ running[u] # <<>>
    /\ Head(running[u]).op = "acquire"
    /\ LET l == Head(running[u]).lock
           m == Head(running[u]).mode
       IN /\ waiting[l] # <<>>
          /\ Head(waiting[l]) = <<u, m>>
          /\ IF m = "write" THEN held[l] = {}
             ELSE \A g \in held[l] : g[2] = "read"
          /\ held' = [held EXCEPT ![l] = @ \cup {<<u, m>>}]
          /\ waiting' = [waiting EXCEPT ![l] = Tail(@)]
    /\ running' = [running EXCEPT ![u] = Tail(@)]
    /\ UNCHANGED phase
    /\ UNCHANGED <<serverVars, peerVars, sendVars, borrowVars>>

\* A guard is dropped.
LockRelease(u) ==
    /\ running[u] # <<>>
    /\ Head(running[u]).op = "release"
    /\ held' = [held EXCEPT ![Head(running[u]).lock] = {g \in @ : g[1] # u}]
    /\ running' = [running EXCEPT ![u] = Tail(@)]
    /\ phase' = [phase EXCEPT ![u] = AfterHandler(u, Tail(running[u]))]
    /\ UNCHANGED waiting
    /\ UNCHANGED <<serverVars, peerVars, sendVars, borrowVars>>

\* An unwrap: it passes, or it panics and the unwinding drops the guards of the task.
LockUnwrap(u, panics) ==
    /\ running[u] # <<>>
    /\ Head(running[u]).op = "unwrap"
    /\ IF panics
       THEN /\ held' = [l \in Locks |-> {g \in held[l] : g[1] # u}]
            /\ running' = [running EXCEPT ![u] = <<>>]
            /\ phase' = [phase EXCEPT ![u] = "panicked"]
       ELSE /\ running' = [running EXCEPT ![u] = Tail(@)]
            /\ UNCHANGED <<held, phase>>
    /\ UNCHANGED waiting
    /\ UNCHANGED <<serverVars, peerVars, sendVars, borrowVars>>

\* ---- one-to-many peer: borrows of the shared record ------------------------------------
\* NetworkManager is Rc<RefCell<NetworkManagerInner>>; the peer is single-threaded,
\* so a handler runs until it returns or reaches an await.
RefCellFree == [refs |-> 0, mut |-> FALSE]

\* session_ready: borrow() for connection_type, the await of create_sdp_offer, then
\* borrow_mut() for the insert.
SessionReadyBorrows == <<"borrow", "drop", "await", "borrow_mut", "drop_mut">>

\* sdp_offer: borrow() for connection_type, borrow_mut() for the insert, then the
\* await of create_sdp_answer.
SdpOfferBorrows == <<"borrow", "drop", "borrow_mut", "drop_mut", "await">>

\* The SdpAnswer and IceCandidate arms: borrow() for the lookup, then the await of
\* set_remote_description / add_ice_candidate.
LookupBorrows == <<"borrow", "drop", "await">>

\* An on_datachannel that calls on_open with its RefMut alive.
OnDataChannelBorrows_CallsUnderBorrow == <<"borrow_mut", "call", "drop_mut">>

\* on_datachannel: borrow_mut() over the assignment of the channel.
OnDataChannelBorrows == <<"borrow_mut", "drop_mut">>

\* on_open and on_message of a data channel call the user's callback.
DataChannelCallbackBorrows == <<"call">>

\* send_message and send_message_to_all: the Ref lives over the send.
SendBorrows == <<"borrow", "drop">>

\* What the user's callback may do with the peer.
UserCallbacks == {<<>>, SendBorrows, SendBorrows \o SendBorrows}

\* What the handler of a websocket message does, per arm.
WebsocketHandlers == {SessionReadyBorrows, SdpOfferBorrows, LookupBorrows}

\* What an event of a peer connection or data channel runs.
ChannelEvents == {OnDataChannelBorrows, DataChannelCallbackBorrows}

\* The event loop is idle and a websocket message arrives: its handler is spawned
\* and runs to its first await.
BorrowOnMessage ==
    /\ frames = <<>>
    /\ Len(parked) < MaxParked
    /\ \E handler \in WebsocketHandlers : frames' = <<handler>>
    /\ UNCHANGED <<cell, parked, conflict>>
    /\ UNCHANGED <<serverVars, peerVars, sendVars, lockVars>>

\* The event loop is idle and a peer connection or data channel fires an event.
BorrowOnEvent ==
    /\ frames = <<>>
    /\ \E event \in ChannelEvents : frames' = <<event>>
    /\ UNCHANGED <<cell, parked, conflict>>
    /\ UNCHANGED <<serverVars, peerVars, sendVars, lockVars>>

\* The event loop is idle and the application calls send_message or
\* send_message_to_all.
BorrowOnSend ==
    /\ frames = <<>>
    /\ frames' = <<SendBorrows>>
    /\ UNCHANGED <<cell, parked, conflict>>
    /\ UNCHANGED <<serverVars, peerVars, sendVars, lockVars>>

\* The promise a suspended handler awaits settles and the handler goes on.
BorrowResume ==
    /\ frames = <<>>
    /\ \E i \in 1..Len(parked) :
           /\ frames' = <<parked[i]>>
           /\ parked' = DropAt(parked, i)
    /\ UNCHANGED <<cell, conflict>>
    /\ UNCHANGED <<serverVars, peerVars, sendVars, lockVars>>

\* The frame on top of the stack does its next operation.
BorrowStep ==
    /\ frames # <<>>
    /\ LET top == frames[Len(frames)]
           below == SubSeq(frames, 1, Len(frames) - 1)
           op == IF top = <<>> THEN "return" ELSE Head(top)
           rest == IF top = <<>> THEN <<>> ELSE Tail(top)
       IN CASE op = "return" ->
                 /\ frames' = below
                 /\ UNCHANGED <<cell, parked, conflict>>
            [] op = "borrow" ->
                 /\ frames' = Append(below, rest)
                 /\ cell' = IF cell.mut THEN cell ELSE [cell EXCEPT !.refs = @ + 1]
                 /\ conflict' = (conflict \/ cell.mut)
                 /\ UNCHANGED parked
            [] op = "borrow_mut" ->
                 /\ frames' = Append(below, rest)
                 /\ cell' = IF cell.mut \/ cell.refs > 0 THEN cell
                            ELSE [cell EXCEPT !.mut = TRUE]
                 /\ conflict' = (conflict \/ cell.mut \/ cell.refs > 0)
                 /\ UNCHANGED parked
            [] op = "drop" ->
                 /\ frames' = Append(below, rest)
                 /\ cell' = [cell EXCEPT !.refs = IF @ > 0 THEN @ - 1 ELSE 0]
                 /\ UNCHANGED <<parked, conflict>>
            [] op = "drop_mut" ->
                 /\ frames' = Append(below, rest)
                 /\ cell' = [cell EXCEPT !.mut = FALSE]
                 /\ UNCHANGED <<parked, conflict>>
            [] op = "await" ->
                 /\ frames' = below
                 /\ parked' = Append(parked, rest)
                 /\ UNCHANGED <<cell, conflict>>
            [] op = "call" ->
                 /\ \E callback \in UserCallbacks :
                        frames' = Append(Append(below, rest), callback)
                 /\ UNCHANGED <<cell, parked, conflict>>
    /\ UNCHANGED <<serverVars, peerVars, sendVars, lockVars>>

\* ---- specifications ------------------------------------------------------------
Init ==
    /\ nextUserId = 1
    /\ task = [u \in UserIds |-> "none"]
    /\ connections = {}
    /\ sessions = <<>>
    /\ outbox = [u \in UserIds |-> <<>>]
    /\ sessionToDelete = [u \in UserIds |-> NoSession]
    /\ inbox = [u \in UserIds |-> <<>>]
    /\ peers = [u \in UserIds |-> NetworkManager]
    /\ readys = [u \in UserIds |-> [m \in UserIds |-> 0]]
    /\ offers = [u \in UserIds |-> [m \in UserIds |-> 0]]
    /\ offered = [u \in UserIds |-> [m \in UserIds |-> 0]]
    /\ o2oPeers = [u \in UserIds |-> O2ONetworkManager]
    /\ dataChannels = [r \in UserIds |-> "absent"]
    /\ dataChannel = "none"
    /\ attempts = [r \in UserIds |-> 0]
    /\ o2oAttempts = 0
    /\ result = "none"
    /\ phase = [u \in UserIds |-> "new"]
    /\ running = [u \in UserIds |-> <<>>]
    /\ held = [l \in Locks |-> {}]
    /\ waiting = [l \in Locks |-> <<>>]
    /\ cell = RefCellFree
    /\ frames = <<>>
    /\ parked = <<>>
    /\ conflict = FALSE

NextO2O ==
    \/ Accept
    \/ \E u \in UserIds : Register(u)
    \/ \E u \in UserIds : Write(u)
    \/ \E u \in UserIds : O2ORecv(u)
    \/ \E u \in UserIds : O2ODisconnectPrune(u)
    \/ \E u \in UserIds : O2ODisconnectDelete(u)
    \/ \E u \in UserIds : O2ODisconnectUnregister(u)

SpecO2O == Init /\ [][NextO2O]_vars

NextO2M ==
    \/ Accept
    \/ \E u \in UserIds : Register(u)
    \/ \E u \in UserIds : Write(u)
    \/ \E u \in UserIds : O2MRecv(u)
    \/ \E u \in UserIds : O2MDisconnect(u)

SpecO2M == Init /\ [][NextO2M]_vars

NextM2M ==
    \/ Accept
    \/ \E u \in UserIds : Register(u)
    \/ \E u \in UserIds : Write(u)
    \/ \E u \in UserIds : M2MRecv(u)
    \/ \E u \in UserIds : M2MDisconnectUnregister(u)
    \/ \E u \in UserIds : M2MDisconnectPrune(u)

SpecM2M == Init /\ [][NextM2M]_vars

\* Peers of the library on a many-to-many signaling server; they stay connected.
NextPeers ==
    \/ Accept
    \/ \E u \in UserIds : Register(u)
    \/ \E u \in UserIds : PeerOnOpen(u)
    \/ \E u \in UserIds : M2MRecvFromPeer(u)
    \/ \E u \in UserIds : PeerOnMessage(u)
    \/ \E u \in UserIds : PeerResume(u)
    \/ \E u, r \in UserIds, ev \in PeerConnectionEvents : PeerConnectionEvent(u, r, ev)

SpecPeers == Init /\ [][NextPeers]_vars

\* Every task, writer and event handler that can run does run.
FairPeers ==
    \A u \in UserIds :
        /\ WF_vars(Register(u))
        /\ WF_vars(PeerOnOpen(u))
        /\ WF_vars(M2MRecvFromPeer(u))
        /\ WF_vars(PeerOnMessage(u))
        /\ WF_vars(PeerResume(u))
        /\ \A r \in UserIds, ev \in PeerConnectionEvents :
               WF_vars(PeerConnectionEvent(u, r, ev))

FairSpecPeers == SpecPeers /\ FairPeers

\* Clients relaying through the many-to-many server; every sink keeps what it gets
\* until its writer task takes it.
NextRelay ==
    \/ Accept
    \/ \E u \in UserIds : Register(u)
    \/ \E u, r \in UserIds : ClientSendOffer(u, r)
    \/ \E u \in UserIds : M2MRecvFromPeer(u)
    \/ \E u \in UserIds : Write(u)

SpecRelay == Init /\ [][NextRelay]_vars

\* Peers of the one-to-one library on a one-to-one signaling server; they stay
\* connected.
NextO2OPeers ==
    \/ Accept
    \/ \E u \in UserIds : Register(u)
    \/ \E u \in UserIds : O2OPeerOnOpen(u)
    \/ \E u \in UserIds : O2ORecvFromPeer(u)
    \/ \E u \in UserIds : O2OPeerOnMessage(u)
    \/ \E u \in UserIds : O2OPeerResume(u)
    \/ \E u \in UserIds, ev \in O2OPeerConnectionEvents : O2OPeerConnectionEvent(u, ev)

SpecO2OPeers == Init /\ [][NextO2OPeers]_vars

\* Every task, writer and event handler that can run does run.
FairO2OPeers ==
    \A u \in UserIds :
        /\ WF_vars(Register(u))
        /\ WF_vars(O2OPeerOnOpen(u))
        /\ WF_vars(O2ORecvFromPeer(u))
        /\ WF_vars(O2OPeerOnMessage(u))
        /\ WF_vars(O2OPeerResume(u))
        /\ \A ev \in O2OPeerConnectionEvents : WF_vars(O2OPeerConnectionEvent(u, ev))

FairSpecO2OPeers == SpecO2OPeers /\ FairO2OPeers

\* A MiniServer and MiniClients of the library on a one-to-many signaling server;
\* they stay connected.
NextO2MPeers ==
    \/ Accept
    \/ \E u \in UserIds : Register(u)
    \/ \E u \in UserIds, is_host \in BOOLEAN : O2MPeerOnOpen(u, is_host)
    \/ \E u \in UserIds : O2MRecvFromPeer(u)
    \/ \E u \in UserIds : PeerOnMessage(u)
    \/ \E u \in UserIds : PeerResume(u)
    \/ \E u, r \in UserIds, ev \in PeerConnectionEvents : PeerConnectionEvent(u, r, ev)

SpecO2MPeers == Init /\ [][NextO2MPeers]_vars

\* Every task, writer and event handler that can run does run.
FairO2MPeers ==
    \A u \in UserIds :
        /\ WF_vars(Register(u))
        /\ WF_vars(\E is_host \in BOOLEAN : O2MPeerOnOpen(u, is_host))
        /\ WF_vars(O2MRecvFromPeer(u))
        /\ WF_vars(PeerOnMessage(u))
        /\ WF_vars(PeerResume(u))
        /\ \A r \in UserIds, ev \in PeerConnectionEvents :
               WF_vars(PeerConnectionEvent(u, r, ev))

FairSpecO2MPeers == SpecO2MPeers /\ FairO2MPeers

\* The user of a one-to-many and of a one-to-one NetworkManager sending while the
\* data channels come up.
NextSend ==
    \/ \E r \in UserIds : SessionReadyInsert(r)
    \/ \E r \in UserIds : SdpOfferInsert(r)
    \/ \E r \in UserIds, state \in ChannelStates : OnDataChannel(r, state)
    \/ \E r \in UserIds : DataChannelOnOpen(r)
    \/ \E r \in UserIds, serializes, rejects \in BOOLEAN : SendMessage(r, serializes, rejects)
    \/ \E serializes \in BOOLEAN, rejecting \in SUBSET UserIds :
           SendMessageToAll(serializes, rejecting)
    \/ O2OStart
    \/ \E state \in ChannelStates : O2OOnDataChannel(state)
    \/ O2ODataChannelOnOpen
    \/ \E serializes, rejects \in BOOLEAN : O2OSendMessage(serializes, rejects)

SpecSend == Init /\ [][NextSend]_vars

\* The connection tasks of the one-to-one server, seen by the locks they take.
NextLocks ==
    \/ \E u \in UserIds : LockConnect(u)
    \/ \E u \in UserIds : LockUserMessage(u)
    \/ \E u \in UserIds : LockUserDisconnected(u)
    \/ \E u \in UserIds : LockRequest(u)
    \/ \E u \in UserIds : LockGrant(u)
    \/ \E u \in UserIds : LockRelease(u)
    \/ \E u \in UserIds, panics \in BOOLEAN : LockUnwrap(u, panics)

SpecLocks == Init /\ [][NextLocks]_vars

\* The runtime runs every task that can run; frames and disconnects come when
\* they come.
FairLocks ==
    \A u \in UserIds :
        /\ WF_vars(LockRequest(u))
        /\ WF_vars(LockGrant(u))
        /\ WF_vars(LockRelease(u))
        /\ WF_vars(\E panics \in BOOLEAN : LockUnwrap(u, panics))

FairSpecLocks == SpecLocks /\ FairLocks

\* One one-to-many peer, seen by the borrows of its shared record.
NextBorrows ==
    \/ BorrowOnMessage
    \/ BorrowOnEvent
    \/ BorrowOnSend
    \/ BorrowResume
    \/ BorrowStep

SpecBorrows == Init /\ [][NextBorrows]_vars

\* Peers of the one-to-many library on the server that forwards by recipient id,
\* next to users that write their own SdpOffer frames to peers of the library.
NextClientOffers ==
    \/ Accept
    \/ \E u \in UserIds : Register(u)
    \/ \E u \in UserIds : LibraryPeerOnOpen(u)
    \/ \E u, r \in UserIds : OtherUserSendOffer(u, r)
    \/ \E u \in UserIds : M2MRecvFromPeer(u)
    \/ \E u \in UserIds : PeerOnMessage(u)
    \/ \E u \in UserIds : PeerResume(u)
    \/ \E u, r \in UserIds : PeerConnectionRun(u, r)

SpecClientOffers == Init /\ [][NextClientOffers]_vars

\* Peers of the library on the server that forwards by recipient id, next to
\* users that write their own frames and negotiate with the peers: they join,
\* offer, answer and send candidates as JSON text.
NextCandidates ==
    \/ AcceptNegotiator
    \/ \E u \in UserIds : Register(u)
    \/ \E u \in UserIds : LibraryPeerOnOpen(u)
    \/ \E u \in UserIds : OtherUserJoin(u)
    \/ \E u, r \in UserIds : OtherUserSendOffer(u, r)
    \/ \E u, r \in UserIds : OtherUserSendAnswer(u, r)
    \/ \E u, r \in UserIds : OtherUserSendCandidate(u, r)
    \/ \E u \in UserIds : M2MRecvFromPeer(u)
    \/ \E u \in UserIds : LibraryPeerOnMessage(u)
    \/ \E u \in UserIds : OtherUserOnMessage(u)
    \/ \E u \in UserIds : PeerResume(u)
    \/ \E u, r \in UserIds : PeerConnectionRun(u, r)

SpecCandidates == Init /\ [][NextCandidates]_vars

\* ---- properties: helpers ---------------------------------------------------------------

\* The messages a step appends to the sink of user u.
Enqueued(u) == SubSeq(outbox'[u], Len(outbox[u]) + 1, Len(outbox'[u]))
\* The step appends to the sinks and takes nothing from them.
OnlyAppends(u) == SubSeq(outbox'[u], 1, Len(outbox[u])) = outbox[u]

O2OFull(session) == session.first # None /\ session.second # None

\* ---- one-to-one registry ------------------------------------------------------------------
\* C1: in the one-to-one registry every session has at most two members, and its
\* first and second are never the same user, after any SessionJoin and disconnect
\* sequence (the same user joining twice, a third user joining a full session).
C1_DistinctMembers ==
    \A s \in DOMAIN sessions :
        /\ Cardinality({sessions[s].first, sessions[s].second} \ {None}) <= 2
        /\ sessions[s].first # None => sessions[s].first # sessions[s].second

\* What C2 asks of a SessionJoin(s) from user u.
C2_Post(u, s) ==
    IF s \in DOMAIN sessions /\ O2OFull(sessions[s])
    THEN \* both members were present: no further SessionReady to either
         /\ Enqueued(sessions[s].first) = <<>>
         /\ Enqueued(sessions[s].second) = <<>>
    ELSE IF s \in DOMAIN sessions' /\ O2OFull(sessions'[s])
    THEN \* the join that completes the pair: one SessionReady to each member
         /\ sessions'[s].first # sessions'[s].second
         /\ Enqueued(sessions'[s].first) = <<O2OSessionReady(s, TRUE)>>
         /\ Enqueued(sessions'[s].second) = <<O2OSessionReady(s, FALSE)>>
    ELSE TRUE

\* C2: once both members of a one-to-one session are present, each has been sent
\* SessionReady exactly once (is_host = TRUE to the first joiner, FALSE to the
\* second), and no later SessionJoin for the session sends either another one.
C2_ReadyExactlyOnce ==
    \A u \in UserIds, s \in SessionIds :
        task[u] = "open" =>
            ~ ENABLED (O2OUserMessage(u, TextJson(O2OSessionJoinMsg(s))) /\ ~ C2_Post(u, s))

\* C3: a SessionJoin for a one-to-one session that already has two members is
\* answered with an Error message to the sender.
C3_FullSessionError ==
    \A u \in UserIds, s \in SessionIds :
        (task[u] = "open" /\ s \in DOMAIN sessions /\ O2OFull(sessions[s])) =>
            ~ ENABLED (/\ O2OUserMessage(u, TextJson(O2OSessionJoinMsg(s)))
                       /\ ~ \E m \in Range(Enqueued(u)) : m.type = "Error")

\* ---- one-to-many registry -----------------------------------------------------------------
C4_HostNotInUsers ==
    \A s \in DOMAIN sessions : sessions[s].host \notin Range(sessions[s].users)

C4_HostKept ==
    \A s \in DOMAIN sessions :
        sessions[s].host # None => (s \in DOMAIN sessions' /\ sessions'[s].host = sessions[s].host)

\* C4: in the one-to-many registry a session's host is never an element of its
\* users, and a host once set is never replaced by a different user, after any
\* sequence of SessionJoin messages (is_host true or false, repeated joins).
C4_HostInvariant == [] C4_HostNotInUsers /\ [][C4_HostKept]_vars

\* C5: SessionJoin(s, is_host = TRUE) for a one-to-many session that has a host is
\* answered with Error(s, ..) to the sender, and host and users stay as they were.
C5_SecondHostError ==
    \A u \in UserIds, s \in SessionIds :
        (task[u] = "open" /\ s \in DOMAIN sessions /\ sessions[s].host # None) =>
            ~ ENABLED (/\ O2MUserMessage(u, TextJson(O2MSessionJoinMsg(s, TRUE)))
                       /\ ~ (/\ O2MError(s) \in Range(Enqueued(u))
                             /\ sessions' = sessions))

\* ---- many-to-many registry ----------------------------------------------------------------
M2MMembers(s) == IF s \in DOMAIN sessions THEN sessions[s].users ELSE {}

\* What C6 asks of a SessionJoin(s) from a user u that is not in s.
C6_Post(u, s) ==
    /\ OnlyAppends(u)
    /\ Len(Enqueued(u)) = Cardinality(M2MMembers(s))
    /\ Range(Enqueued(u)) = {M2MSessionReady(s, m) : m \in M2MMembers(s)}
    /\ \A v \in UserIds \ {u} : outbox'[v] = outbox[v]
    /\ s \in DOMAIN sessions'
    /\ sessions'[s].users = M2MMembers(s) \cup {u}

\* C6: on SessionJoin(s) from a user not yet in many-to-many session s, the server
\* sends that user exactly one SessionReady(s, m) per member m already in s, sends
\* nothing to the members, and adds the user to s.
C6_JoinIntroducesMembers ==
    \A u \in UserIds, s \in SessionIds, h \in BOOLEAN :
        (task[u] = "open" /\ u \notin M2MMembers(s)) =>
            ~ ENABLED (M2MUserMessage(u, TextJson(M2MSessionJoinMsg(s, h))) /\ ~ C6_Post(u, s))

\* A joiner holds the introductions to two members in its sink.
C6_Witness ==
    \E u \in UserIds, s \in DOMAIN sessions :
        /\ u \in sessions[s].users
        /\ Cardinality(sessions[s].users) = 3
        /\ Len(outbox[u]) = 2
        /\ Range(outbox[u]) = {M2MSessionReady(s, m) : m \in sessions[s].users \ {u}}

\* What C8 asks of a relayed request m from user u: whatever is enqueued is m with
\* the user slot set to u.
C8_Post(u, m) ==
    \A v \in UserIds :
        /\ OnlyAppends(v)
        /\ \A x \in Range(Enqueued(v)) :
               x = [type |-> m.type, session |-> m.session, user |-> u, payload |-> m.payload]

\* C8: every SdpOffer, SdpAnswer or IceCandidate the many-to-many module forwards
\* carries the server-assigned id of the connection it came in on, whatever id the
\* client put in that slot, and the session id and payload it came with.
C8_SenderIdRewritten ==
    \A u \in UserIds, t \in RelayTypes, s \in SessionIds, r \in UserIds, p \in Payloads :
        task[u] = "open" =>
            ~ ENABLED (/\ M2MUserMessage(u, TextJson(M2MRelay(t, s, r, p)))
                       /\ ~ C8_Post(u, M2MRelay(t, s, r, p)))

\* A forwarded message waits in the sink of a user other than its sender.
C8_Witness ==
    \E v \in UserIds : \E x \in Range(outbox[v]) :
        x.type \in RelayTypes /\ x.user # v /\ task[x.user] = "open"

\* C9: an SdpOffer, SdpAnswer or IceCandidate whose stated recipient is not a
\* member of the named session is not delivered to that recipient, and the sender
\* receives an Error.
C9_NonMemberDropped ==
    \A u \in UserIds, t \in RelayTypes, s \in SessionIds, r \in UserIds, p \in Payloads :
        (task[u] = "open" /\ r \notin M2MMembers(s)) =>
            ~ ENABLED (/\ M2MUserMessage(u, TextJson(M2MRelay(t, s, r, p)))
                       /\ ~ (/\ outbox'[r] = outbox[r] \/ r = u
                             /\ \E m \in Range(Enqueued(u)) : m.type = "Error"))

\* C10: once every user that joined a session has disconnected, the session has
\* no entry in the registry: an entry has a member that is not yet disconnected.
C10_EmptySessionsRemoved ==
    \A s \in DOMAIN sessions : \E u \in sessions[s].users : task[u] # "closed"

\* ---- peers on the many-to-many server -----------------------------------------------------
C7_Members(a, b) == {a, b} \subseteq M2MMembers(PeerSession)

\* One of the two has been told of the other, once.
C7_ReadyOnce(a, b) == readys[a][b] + readys[b][a] = 1
\* One SdpOffer has passed from one of the two to the other.
C7_OfferOnce(a, b) == offered[a][b] + offered[b][a] = 1

C7_AtMostOnce ==
    \A a, b \in UserIds :
        a # b => /\ readys[a][b] + readys[b][a] <= 1
                 /\ offers[a][b] + offers[b][a] <= 1
                 /\ offered[a][b] + offered[b][a] <= 1

\* C7: distinct users that join one many-to-many session and stay connected
\* negotiate pairwise exactly once: of any two members exactly one receives a
\* SessionReady naming the other, and exactly one SdpOffer is sent between them.
C7_PairsNegotiateOnce ==
    /\ [] C7_AtMostOnce
    /\ \A a, b \in UserIds :
           a < b => (C7_Members(a, b) ~> [] (C7_ReadyOnce(a, b) /\ C7_OfferOnce(a, b)))

\* ---- disconnects ---------------------------------------------------------------------------
\* C11: when user_disconnected(u) has completed, u is a member of no session of
\* the registry, however many sessions u had joined and whatever others exist.
C11_NoMembershipAfterDisconnect ==
    \A u \in UserIds :
        task[u] = "closed" => \A s \in DOMAIN sessions : u \notin sessions[s].users

\* C12: every user present in a session has a sink in the connection registry in
\* every state up to the end of its disconnect handling, the states between the
\* steps of user_disconnected included, so that no handler looks up a session
\* member and finds no sink.
C12_MembersHaveSinks ==
    \A s \in DOMAIN sessions : \A u \in sessions[s].users :
        task[u] # "closed" => u \in connections

\* C13: whenever a forwarded SdpOffer, SdpAnswer or IceCandidate reaches its
\* recipient (the writer task of the recipient sends it), the sender id it carries
\* is registered in the connection registry at that moment, however the sender's
\* disconnect interleaves with the delivery.
C13_SenderRegisteredAtDelivery ==
    [][\A r \in UserIds :
          (task[r] = "open" /\ WriterSend(r) /\ Head(outbox[r]).type \in RelayTypes) =>
              Head(outbox[r]).user \in connections]_vars

\* What the relay arms enqueue carries an id that is registered.
C13_Post ==
    \A v \in UserIds : \A x \in Range(Enqueued(v)) :
        x.type \in RelayTypes => x.user \in connections'

\* C13 as amended: at the moment the server forwards an SdpOffer, SdpAnswer or
\* IceCandidate (puts it on the recipient's sink), the sender id it carries is
\* registered in the connection registry.
C13_SenderRegisteredAtForward ==
    \A u \in UserIds, t \in RelayTypes, s \in SessionIds, r \in UserIds, p \in Payloads :
        task[u] = "open" =>
            ~ ENABLED (M2MUserMessage(u, TextJson(M2MRelay(t, s, r, p))) /\ ~ C13_Post)

\* A forwarded message waits in the sink of a registered user, its sender registered.
C13_Witness ==
    \E v \in connections : \E x \in Range(outbox[v]) :
        x.type \in RelayTypes /\ x.user \in connections \ {v}

\* ---- ordering of the relay ----------------------------------------------------------------
\* The numbers of the offers of u that wait in the sink of r, oldest first.
C14_Queued(u, r) ==
    LET Keep(x) == x.type = "SdpOffer" /\ x.user = u
        kept == SelectSeq(outbox[r], Keep)
    IN [i \in 1..Len(kept) |-> kept[i].payload]

\* The numbers of the offers for r that u's connection has still to deliver.
C14_Coming(u, r) ==
    LET Keep(f) == f.msg.type = "SdpOffer" /\ f.msg.user = r
        kept == SelectSeq(inbox[u], Keep)
    IN [i \in 1..Len(kept) |-> kept[i].msg.payload]

Increasing(seq) == \A i, j \in 1..Len(seq) : i < j => seq[i] < seq[j]

\* C14: when one sender's connection delivers m1 and then m2 to the server and
\* both are forwarded to the same recipient, the recipient's sink receives m1
\* before m2, under any interleaving with the handlers of other senders: what
\* waits in the sink is in the order sent, and older than what is still to come.
C14_ForwardedInOrder ==
    \A u, r \in UserIds : Increasing(C14_Queued(u, r) \o C14_Coming(u, r))

\* Two offers of one sender wait in the sink of one recipient.
C14_Witness ==
    \E u, r \in UserIds : u # r /\ C14_Queued(u, r) = <<1, 2>>

\* ---- one-to-one relay ---------------------------------------------------------------------
\* Member u of s has sent an SdpOffer for s: it waits in the sink of the other
\* member, and the session's flag is set.
C15_OfferSent(u, s) ==
    /\ s \in DOMAIN sessions
    /\ sessions[s].first = u
    /\ sessions[s].second \notin {None, u}
    /\ sessions[s].second \in connections
    /\ sessions[s].offer_received
    /\ \E p \in Payloads : O2ORelay("SdpOffer", s, p) \in Range(outbox[sessions[s].second])

\* C15: when a member of a one-to-one session sends two SdpOffer frames for the
\* session, the server relays only the first to the other member; the second is
\* not forwarded.
C15_SecondOfferDropped ==
    \A u \in UserIds, s \in SessionIds, p \in Payloads :
        (task[u] = "open" /\ C15_OfferSent(u, s)) =>
            ~ ENABLED (/\ O2OUserMessage(u, TextJson(O2ORelay("SdpOffer", s, p)))
                       /\ \E v \in UserIds : Enqueued(v) # <<>>)

\* ---- user ids ------------------------------------------------------------------------------
\* C16: within a topology the first accepted connection gets UserId 1, each later
\* one an id greater than every id allocated before it, and no id is given to a
\* second connection, its first owner disconnected or not: the ids in use or used
\* are exactly those below the counter.
C16_IdsNeverReused ==
    /\ nextUserId >= 1
    /\ \A u \in UserIds : task[u] # "none" <=> u < nextUserId

\* A connection was accepted with an id above that of a disconnected user.
C16_Witness ==
    \E u, v \in UserIds : u < v /\ task[u] = "closed" /\ task[v] = "accepted"

\* ---- peers on the one-to-one server ---------------------------------------------------------
\* Only a peer told is_host = TRUE creates or sends an offer.
C17_OnlyHostOffers ==
    \A u \in UserIds :
        /\ FALSE \in o2oPeers[u].told =>
               (o2oPeers[u].sent = 0 /\ o2oPeers[u].pending = <<>>)
        /\ o2oPeers[u].sent > 0 => TRUE \in o2oPeers[u].told

\* Session s is ready with members a and b.
C17_Ready(s, a, b) ==
    /\ s \in DOMAIN sessions
    /\ sessions[s].first = a
    /\ sessions[s].second = b

\* C17: for every one-to-one session that becomes ready, exactly one of its two
\* members, the one told is_host = TRUE, creates and sends an SdpOffer; the member
\* told is_host = FALSE never sends one.
C17_OneOfferer ==
    /\ [] C17_OnlyHostOffers
    /\ \A s \in SessionIds, a, b \in UserIds :
           C17_Ready(s, a, b) ~> (o2oPeers[a].sent > 0 /\ o2oPeers[b].sent = 0)

\* The first member of a ready session has sent its offer, the second was told
\* is_host = FALSE.
C17_Witness ==
    \E s \in DOMAIN sessions :
        /\ O2OFull(sessions[s])
        /\ o2oPeers[sessions[s].first].sent = 1
        /\ o2oPeers[sessions[s].second].told = {FALSE}

\* ---- offer direction in one-to-many --------------------------------------------------
\* The sinks a step appends to.
C18_Told == {r \in UserIds : Enqueued(r) # <<>>}

C18_Post(u, s) ==
    LET before == IF s \in DOMAIN sessions THEN sessions[s] ELSE O2MSession(None, <<>>)
        after == sessions'[s]
        paired == IF after.host = None THEN {}
                  ELSE IF before.host = None THEN Range(after.users)
                  ELSE Range(after.users) \ Range(before.users)
    IN /\ \A r \in UserIds : OnlyAppends(r)
       /\ C18_Told \subseteq {after.host}
       /\ \A r \in C18_Told :
              /\ Range(Enqueued(r)) = {O2MSessionReady(s, c) : c \in paired}
              /\ Len(Enqueued(r)) = Cardinality(paired)
       /\ paired # {} => C18_Told = {after.host}

\* A peer offers only as the host of the session, and only to its clients.
C18_OnlyHostOffers ==
    \A a, b \in UserIds :
        (offers[a][b] > 0 \/ readys[a][b] > 0) =>
            /\ PeerSession \in DOMAIN sessions
            /\ sessions[PeerSession].host = a
            /\ b \in Range(sessions[PeerSession].users)

C18_HostToldOfClient ==
    \A u \in UserIds :
        (task[u] = "open" /\ inbox[u] # <<>> /\ Head(inbox[u]).codec = "json") =>
            ~ ENABLED (O2MRecvFromPeer(u) /\ ~ C18_Post(u, Head(inbox[u]).msg.session))

C19_Errors == {"Err: serialize", "Err: no connection", "Err: no data channel",
               "Err: failed to send"}

\* The call returned an error and the connection records are as they were.
C19_Post == result' \in C19_Errors /\ dataChannels' = dataChannels /\ dataChannel' = dataChannel

\* C19: send_message for a remote peer whose data channel is not open (no connection
\* record, a record without a data channel, or a channel still connecting) returns
\* an error and leaves the connection records unchanged; so does the one-to-one
\* send_message while its data channel is not open.
C19_SendBeforeOpenFails ==
    /\ \A r \in UserIds, serializes, rejects \in BOOLEAN :
           (dataChannels[r] # "open" /\ attempts[r] < MaxSends) =>
               ~ ENABLED (SendMessage(r, serializes, rejects) /\ ~ C19_Post)
    /\ \A serializes, rejects \in BOOLEAN :
           (dataChannel # "open" /\ o2oAttempts < MaxSends) =>
               ~ ENABLED (O2OSendMessage(serializes, rejects) /\ ~ C19_Post)

\* A send on a channel still connecting was tried once and failed, next to a remote
\* without a record and a record without a channel.
C19_Witness ==
    /\ result = "Err: failed to send"
    /\ o2oAttempts = 0
    /\ \E a, b, c \in UserIds :
           /\ dataChannels[a] = "connecting" /\ attempts[a] = 1
           /\ dataChannels[b] = "none" /\ attempts[b] = 0
           /\ dataChannels[c] = "absent" /\ attempts[c] = 0

\* One more send on every connection with a data channel, none on the others, Ok
\* returned, the records as they were.
C20_Post ==
    /\ attempts' = [r \in UserIds |->
                       IF dataChannels[r] \in ChannelStates THEN attempts[r] + 1
                       ELSE attempts[r]]
    /\ result' = "Ok"
    /\ dataChannels' = dataChannels

C24_CodecsMatch ==
    \A u \in UserIds :
        /\ \A i \in 1..Len(inbox[u]) :
               WarpToStr(inbox[u][i]) /\ JsonFromStr(inbox[u][i])
        /\ \A i \in 1..Len(outbox[u]) : LibFromStr(TextJson(outbox[u][i]))

\* ---- one-to-one: negotiation to the end ---------------------------------------------------
\* Another user has taken the place of b in the session of a and b.
C23_PairChanged(a, b) ==
    PeerSession \notin DOMAIN sessions \/ sessions[PeerSession].second # b

\* C23: when two peers have started with the same one-to-one session id and stay
\* connected, eventually the offer is answered, and the on_open callback has run at
\* both peers (their data channels are open).
C23_NegotiationCompletes ==
    \A a, b \in UserIds :
        (a # b /\ C17_Ready(PeerSession, a, b)) ~>
            \/ C23_PairChanged(a, b)
            \/ /\ o2oPeers[b].answers > 0
               /\ o2oPeers[a].opens > 0
               /\ o2oPeers[b].opens > 0

\* C21: with peer 1 sending "ping" from on_open and peer b answering "pong" from
\* on_message, the on_message of b is called with "ping" exactly once and that of
\* peer 1 with "pong" exactly once.
C21_PingPongOnce ==
    /\ [] (\A u \in UserIds : Len(o2oPeers[u].messages) <= 1)
    /\ \A b \in UserIds :
           (b # 1 /\ C17_Ready(PeerSession, 1, b)) ~>
               \/ C23_PairChanged(1, b)
               \/ /\ o2oPeers[b].messages = <<"ping">>
                  /\ o2oPeers[1].messages = <<"pong">>

C26_Named(u) == {Enqueued(u)[i].user : i \in 1..Len(Enqueued(u))}

\* C26: a user that joins a many-to-many session receives SessionReady for no user
\* whose disconnect has been handled, whatever other sessions that user was in.
C26_NoReadyForDeparted ==
    \A u \in UserIds, s \in SessionIds :
        task[u] = "open" =>
            ~ ENABLED (/\ M2MUserMessage(u, TextJson(M2MSessionJoinMsg(s, TRUE)))
                       /\ \E m \in C26_Named(u) : task[m] = "closed")

\* ---- the registry locks ---------------------------------------------------------------
\* A handler of u is under way.
C25_InHandler(u) == running[u] # <<>>

\* Some task with a handler under way can take its next step.
C25_SomeoneMoves ==
    \E u \in UserIds :
        \/ ENABLED LockRequest(u)
        \/ ENABLED LockGrant(u)
        \/ ENABLED LockRelease(u)
        \/ ENABLED (\E panics \in BOOLEAN : LockUnwrap(u, panics))

\* C25: no interleaving of join, forward and disconnect handlers reaches a state
\* where the handlers under way all wait for the registry locks, and every handler
\* that starts ends with none of its guards alive.
C25_NoLockDeadlock ==
    /\ [] ((\E u \in UserIds : C25_InHandler(u)) => C25_SomeoneMoves)
    /\ [] (\A u \in UserIds, l \in Locks : Holds(u, l) => C25_InHandler(u))
    /\ \A u \in UserIds :
           C25_InHandler(u) ~> (~ C25_InHandler(u) /\ \A l \in Locks : ~ Holds(u, l))

\* One handler holds the sessions lock and waits for the connections lock, which a
\* second task holds for writing, while a third waits for the sessions lock.
C25_Witness ==
    \E a, b, c \in UserIds :
        /\ Holds(a, "sessions") /\ Queued(a, "connections")
        /\ <<b, "write">> \in held["connections"]
        /\ Queued(c, "sessions")

\* ---- one-to-one: a member of a ready session disconnects ------------------------------
\* Session s is ready with members u and v and no offer has passed.
C27_ReadyWith(s, u, v) ==
    /\ u # v /\ u # None /\ v # None
    /\ s \in DOMAIN sessions
    /\ {sessions[s].first, sessions[s].second} = {u, v}
    /\ ~ sessions[s].offer_received

\* user_disconnected(u) removes u from the connection registry.
C27_Unregisters ==
    \A u \in UserIds :
        task[u] = "unregister" => ~ ENABLED (O2ODisconnectUnregister(u) /\ u \in connections')

\* C27 as stated: when one of the two members of a ready one-to-one session
\* disconnects before any message is exchanged, the server removes that user from
\* the connection registry and deletes the session entry.
C27_SessionDeleted ==
    /\ C27_Unregisters
    /\ \A s \in SessionIds, u, v \in UserIds :
           (task[u] = "open" /\ C27_ReadyWith(s, u, v)) =>
               ~ ENABLED (O2ODisconnectPrune(u) /\ sessionToDelete'[u] # s)

\* C27 amended: when one of the two members of a ready one-to-one session
\* disconnects before any message is exchanged, the server removes that user from
\* the connection registry and clears its slot of the session; the entry stays in
\* the registry with the other member and is not marked for deletion.
C27_SlotCleared ==
    /\ C27_Unregisters
    /\ \A s \in SessionIds, u, v \in UserIds :
           (task[u] = "open" /\ C27_ReadyWith(s, u, v)) =>
               ~ ENABLED (/\ O2ODisconnectPrune(u)
                          /\ ~ (/\ s \in DOMAIN sessions'
                                /\ {sessions'[s].first, sessions'[s].second} = {None, v}
                                /\ sessionToDelete'[u] # s))

\* A member has disconnected from a session that was ready: its slot is empty, the
\* other member is still there and connected, and its own connection is gone.
C27_Witness ==
    \E s \in DOMAIN sessions, u, v \in UserIds :
        /\ u # v
        /\ task[u] = "closed" /\ u \notin connections
        /\ sessions[s].first = None /\ sessions[s].second = v
        /\ ~ sessions[s].offer_received
        /\ task[v] = "open" /\ v \in connections

\* ---- one-to-one: who a relayed message reaches -----------------------------------------
\* C28: a one-to-one SdpOffer, SdpAnswer or IceCandidate is delivered only to the
\* session member other than the sender: to nobody when the sender is not a member
\* of the named session, and never back to the connection that sent it.
C28_OnlyToOtherMember ==
    \A u \in UserIds, t \in RelayTypes, s \in SessionIds, p \in Payloads :
        task[u] = "open" =>
            ~ ENABLED (/\ O2OUserMessage(u, TextJson(O2ORelay(t, s, p)))
                       /\ \E v \in UserIds :
                              /\ Enqueued(v) # <<>>
                              /\ ~ (/\ v # u
                                    /\ s \in DOMAIN sessions
                                    /\ {sessions[s].first, sessions[s].second} = {u, v}))

\* ---- one-to-one: frames the server cannot use --------------------------------------------
\* The frames of a client that do not decode as a SignalMessage.
C29_Malformed == {frame \in O2OClientFrames : ~ (WarpToStr(frame) /\ JsonFromStr(frame))}

\* C29: a frame that fails to decode as a SignalMessage changes neither registry,
\* sends nothing to any user, and leaves the sender's reader loop running with its
\* connection registered; the state it leaves is the state it found, so the same
\* holds for every further malformed frame.
C29_MalformedIgnored ==
    \A u \in UserIds, frame \in C29_Malformed :
        task[u] = "open" =>
            ~ ENABLED (/\ O2OUserMessage(u, frame)
                       /\ ~ (/\ UNCHANGED <<sessions, connections, outbox>>
                             /\ task'[u] = "open"
                             /\ (u \in connections => u \in connections')))

\* A registered member of a ready session, with messages still queued for it, sends
\* a text frame that is no JSON and a binary frame.
C29_Witness ==
    \E u \in UserIds, s \in DOMAIN sessions :
        /\ task[u] = "open" /\ u \in connections
        /\ O2OFull(sessions[s]) /\ u \in {sessions[s].first, sessions[s].second}
        /\ sessions[s].first # sessions[s].second
        /\ outbox[u] # <<>>
        /\ {frame.kind : frame \in C29_Malformed} = {"Text", "Binary"}
        /\ \A frame \in C29_Malformed :
               ENABLED (O2OUserMessage(u, frame) /\ UNCHANGED serverVars)

\* C30: an SdpOffer, SdpAnswer or IceCandidate naming a session id that is not in
\* the one-to-one registry is dropped: nothing is sent to any user, no session
\* entry is created, and both registries are unchanged.
C30_UnknownSessionDropped ==
    \A u \in UserIds, t \in RelayTypes, s \in SessionIds, p \in Payloads :
        (task[u] = "open" /\ s \notin DOMAIN sessions) =>
            ~ ENABLED (/\ O2OUserMessage(u, TextJson(O2ORelay(t, s, p)))
                       /\ ~ UNCHANGED <<sessions, connections, outbox>>)

\* A registered user, member of a ready session, sends each kind of relay for a
\* session id the registry does not hold.
C30_Witness ==
    \E u \in UserIds, s \in SessionIds, r \in DOMAIN sessions :
        /\ task[u] = "open" /\ u \in connections
        /\ s \notin DOMAIN sessions
        /\ O2OFull(sessions[r]) /\ u \in {sessions[r].first, sessions[r].second}
        /\ sessions[r].first # sessions[r].second
        /\ \A t \in RelayTypes, p \in Payloads :
               ENABLED (/\ O2OUserMessage(u, TextJson(O2ORelay(t, s, p)))
                        /\ UNCHANGED serverVars)

\* ---- forwarding to a user that is not registered ---------------------------------------
\* C31: forwarding to a recipient id that has no entry in the connection registry
\* drops the message without ending the sender's reader task: the sender stays
\* registered, both registries are unchanged, and the sender's next messages are
\* still processed.
C31_UnknownRecipientDropped ==
    \A u, r \in UserIds, t \in RelayTypes, s \in SessionIds, p \in Payloads :
        (task[u] = "open" /\ r \notin connections) =>
            ~ ENABLED (/\ M2MUserMessage(u, TextJson(M2MRelay(t, s, r, p)))
                       /\ ~ (/\ task'[u] = "open"
                             /\ UNCHANGED <<connections, sessions, outbox>>))

\* A registered user forwards to a user that has disconnected and to an id that was
\* never given out.
C31_Witness ==
    \E u, r, n \in UserIds :
        /\ task[u] = "open" /\ u \in connections
        /\ task[r] = "closed" /\ r \notin connections
        /\ n >= nextUserId
        /\ \A t \in RelayTypes, s \in SessionIds, p \in Payloads, x \in {r, n} :
               ENABLED (/\ M2MUserMessage(u, TextJson(M2MRelay(t, s, x, p)))
                        /\ UNCHANGED serverVars)

\* In the one-to-one module the recipient is taken from the session, and the session
\* never names somebody else's recipient that has left the connection registry.
C31_O2ORecipientRegistered ==
    \A u \in UserIds, s \in DOMAIN sessions :
        task[u] = "open" => O2ORecipient(u, sessions[s]) \in connections \cup {None}

\* ---- peers: a candidate the peer connection rejects ------------------------------------
\* C33: when adding a received ICE candidate to the peer connection is rejected,
\* the signaling handling of the peer does not stop: its records are unchanged and
\* later signaling messages are still handled.
C33_CandidateRejectionTolerated ==
    \A u \in UserIds :
        (/\ outbox[u] # <<>>
         /\ Head(outbox[u]).type = "IceCandidate"
         /\ o2oPeers[u].executor = "running"
         /\ ~ o2oPeers[u].remote) =>
            ~ ENABLED (O2OPeerOnMessage(u) /\ o2oPeers'[u] # o2oPeers[u])

\* ---- many-to-many: a SessionReady that comes from a client -----------------------------
\* C32: when the server receives a SessionReady from a client, it rewrites the
\* user-id slot to the id of the sender and forwards the message to the stated
\* recipient.
C32_SessionReadyForwarded ==
    \A u, r \in UserIds, s \in SessionIds :
        (task[u] = "open" /\ r \in connections) =>
            ~ ENABLED (/\ M2MUserMessage(u, TextJson(M2MSessionReady(s, r)))
                       /\ M2MSessionReady(s, u) \notin Range(Enqueued(r)))

\* C32 amended: when the server receives a SessionReady from a client, it ignores
\* it: nothing is sent to any user, the registries are unchanged and the sender's
\* reader loop goes on.
C32_SessionReadyIgnored ==
    \A u, r \in UserIds, s \in SessionIds :
        task[u] = "open" =>
            ~ ENABLED (/\ M2MUserMessage(u, TextJson(M2MSessionReady(s, r)))
                       /\ ~ (/\ UNCHANGED <<sessions, connections, outbox>>
                             /\ task'[u] = "open"))

\* Two registered members of a session, one sending a SessionReady that names the
\* other.
C32_Witness ==
    \E u, r \in UserIds, s \in DOMAIN sessions :
        /\ u # r /\ {u, r} \subseteq connections
        /\ task[u] = "open" /\ task[r] = "open"
        /\ {u, r} \subseteq sessions[s].users
        /\ ENABLED (/\ M2MUserMessage(u, TextJson(M2MSessionReady(s, r)))
                    /\ UNCHANGED serverVars)

\* ---- one-to-one peers: candidates and the signaling socket -----------------------------
C34_IsCandidate(frame) == frame.codec = "json" /\ frame.msg.type = "IceCandidate"
C34_IsJoin(frame) == frame.codec = "json" /\ frame.msg.type = "SessionJoin"

\* The SessionJoin of u is on its way to the server or has been handled by it.
C34_Joined(u, i) ==
    \/ \E j \in 1..(i - 1) : C34_IsJoin(inbox[u][j])
    \/ /\ PeerSession \in DOMAIN sessions
       /\ u \in {sessions[PeerSession].first, sessions[PeerSession].second}

\* C34: a peer never sends an IceCandidate on the signaling socket before that
\* socket has opened and the SessionJoin of the peer has been sent on it.
C34_CandidateAfterJoin ==
    \A u \in UserIds : \A i \in 1..Len(inbox[u]) :
        C34_IsCandidate(inbox[u][i]) =>
            /\ o2oPeers[u].ws = "open"
            /\ C34_Joined(u, i)
            /\ \A j \in (i + 1)..Len(inbox[u]) : ~ C34_IsJoin(inbox[u][j])

\* A candidate of a peer waits on its open socket, its SessionJoin handled.
C34_Witness ==
    \E u \in UserIds : \E i \in 1..Len(inbox[u]) :
        /\ C34_IsCandidate(inbox[u][i])
        /\ o2oPeers[u].ws = "open"
        /\ o2oPeers[u].candidates > 0

\* ---- one-to-many peer: borrows and callbacks -------------------------------------------
\* The next operation of the running frame.
C35_NextOp ==
    IF frames = <<>> \/ frames[Len(frames)] = <<>> THEN "none"
    ELSE Head(frames[Len(frames)])

\* C35: no handler invokes a user callback while a borrow of the shared record is
\* held, and no borrow is held across a suspension point, so a callback that calls
\* send_message or send_message_to_all never meets a conflicting borrow.
C35_NoBorrowAcrossCallback ==
    /\ C35_NextOp \in {"call", "await"} => cell = RefCellFree
    /\ frames = <<>> => cell = RefCellFree
    /\ ~ conflict

\* The user's callback is sending, called from a data channel event, while
\* handlers are suspended at their awaits.
C35_Witness ==
    /\ Len(frames) = 2
    /\ cell.refs = 1
    /\ Len(parked) = MaxParked
    /\ \E i \in 1..Len(parked) : parked[i] = <<"borrow_mut", "drop_mut">>

\* ---- one-to-many client: its sole connection -------------------------------------------
\* C36: the connection map of a one-to-many client never holds more than one
\* entry, the one of the session host, whatever SdpOffer messages other users of
\* the server send to the client.
C36_SoleConnection ==
    \A u, h, x \in UserIds :
        (/\ peers[u].ws = "open"
         /\ peers[u].connections = {h}
         /\ {u, h} \subseteq M2MMembers(PeerSession)
         /\ x \notin {u, h}
         /\ outbox[u] # <<>>
         /\ Head(outbox[u]).type = "SdpOffer"
         /\ Head(outbox[u]).user = x) =>
            ~ ENABLED (PeerOnMessage(u) /\ peers'[u].connections # {h})

\* ---- one-to-one: members stay ----------------------------------------------------------
\* C37: a user recorded as first or second of a one-to-one session stays recorded
\* until its own disconnect: no SessionJoin of another user replaces a member that
\* is still connected, also when the other slot was vacated by a disconnect.
C37_MembersStay ==
    \A u, v \in UserIds, s \in DOMAIN sessions :
        (/\ task[u] = "open"
         /\ v # u
         /\ task[v] = "open"
         /\ v \in {sessions[s].first, sessions[s].second}) =>
            ~ ENABLED (/\ O2OUserMessage(u, TextJson(O2OSessionJoinMsg(s)))
                       /\ v \notin {sessions'[s].first, sessions'[s].second})

\* ---- nobody is introduced to itself ------------------------------------------------------
\* C38: a SessionReady sent to a user never introduces that user to itself: in
\* many-to-many it never names the id of its recipient, also when a user sends
\* SessionJoin twice for the same session.
C38_NoSelfIntroduction ==
    \A u \in UserIds, s \in SessionIds, h \in BOOLEAN :
        task[u] = "open" =>
            ~ ENABLED (/\ M2MUserMessage(u, TextJson(M2MSessionJoinMsg(s, h)))
                       /\ \E v \in UserIds : \E x \in Range(Enqueued(v)) :
                              x.type = "SessionReady" /\ x.user = v)

\* ---- peers: a candidate next to a suspended SDP handler -----------------------------------
\* The handler of an SdpOffer or SdpAnswer of remote r is suspended at an await on
\* the connection of the record of r: sdp_offer of a peer that sent r no offer of
\* its own, or the SdpAnswer arm waiting for set_remote_description.
C39_Suspended(u, r) ==
    \/ /\ <<"sdp_offer", r>> \in Range(peers[u].pending)
       /\ offers[u][r] = 0
    \/ /\ r \in peers[u].remote
       /\ "set_remote_description" \in Range(peers[u].chain[r])

\* The next message for peer u is an IceCandidate of remote r.
C39_CandidateFrom(u, r) ==
    /\ peers[u].ws = "open"
    /\ outbox[u] # <<>>
    /\ Head(outbox[u]).type = "IceCandidate"
    /\ Head(outbox[u]).user = r

\* The handler finds the record and calls add_ice_candidate on a connection the
\* remote description of which is set or is set before the call runs.
C39_QueuedBehind(u, r) ==
    /\ peers'[u].chain[r] = Append(peers[u].chain[r], "add_ice_candidate")
    /\ \/ r \in peers[u].described
       \/ "set_remote_description" \in Range(peers[u].chain[r])

\* C39: on a peer, an IceCandidate of remote r that is handled while the handler
\* of the SdpOffer or SdpAnswer of r is still suspended at an await is added to
\* the connection of r only after the remote description is set; no such
\* candidate is refused or lost, and a peer that only answers r never has a
\* candidate of r refused.
C39_CandidateAfterDescription ==
    /\ \A u, r \in UserIds :
           (C39_Suspended(u, r) /\ C39_CandidateFrom(u, r)) =>
               ~ ENABLED (LibraryPeerOnMessage(u) /\ ~ C39_QueuedBehind(u, r))
    /\ \A u, r \in UserIds :
           offers[u][r] = 0 => r \notin peers[u].rejected

\* A candidate of remote 1 was handled and added while sdp_offer of peer 2 was
\* still suspended.
C39_Witness ==
    /\ <<"sdp_offer", 1>> \in Range(peers[2].pending)
    /\ offers[2][1] = 0
    /\ 1 \in peers[2].added

\* ---- peers: the record of the offering peer ----------------------------------------------
\* The next message for peer u is an SdpAnswer or an IceCandidate of remote r.
C40_ReplyFrom(u, r) ==
    /\ peers[u].ws = "open"
    /\ outbox[u] # <<>>
    /\ Head(outbox[u]).type \in {"SdpAnswer", "IceCandidate"}
    /\ Head(outbox[u]).user = r

\* C40: on the offering peer, once the offer for remote r has been sent the
\* record of r is in place, so that an SdpAnswer or IceCandidate of r that is
\* handled after the offer went out finds the record: the handler does not end
\* with the Err of a missing connection.
C40_RecordInPlace ==
    \A u, r \in UserIds :
        (peers[u].ws = "open" /\ offers[u][r] > 0) =>
            /\ r \in peers[u].connections
            /\ C40_ReplyFrom(u, r) =>
                   ~ ENABLED (LibraryPeerOnMessage(u) /\ peers'[u] = peers[u])

\* Peer 2 offered to remote 1, which never offered, and has applied the answer
\* and added a candidate of remote 1.
C40_Witness ==
    /\ peers[2].ws = "open"
    /\ offers[2][1] > 0
    /\ offers[1][2] = 0
    /\ 1 \in peers[2].remote
    /\ 1 \in peers[2].added

====
